---- MODULE Spec2Model ----
(***************************************************************************)
(* Booking engine of the plain-text double-entry ledger: exact-rational    *)
(* amounts, lot inventories, the FIFO / LIFO booking methods over an       *)
(* in-place binary heap, and the directive driver `book`.                  *)
(***************************************************************************)
EXTENDS Integers, Sequences, FiniteSets, TLC

VARIABLES
    inv,          \* Inventory under test by the Inventory API calls
    call,         \* last Inventory API call: name, arguments, receiver
    calls,        \* number of Inventory API calls made so far
    bm,           \* booking-method or bookPosting call: arguments and result
    accountMap,   \* book: account -> Open / Close directive (or Absent)
    inventories,  \* book: account -> Inventory
    transactions, \* book: booked transactions pushed so far
    pc,           \* book: "idle" | "directive" | "posting" | "done"
    result,       \* book: "running" | "ok" | the error returned
    ndirectives,  \* book: directives consumed from ledger.directives
    npostings,    \* book: input postings consumed, over all transactions
    txn,          \* bookTransaction: the TransactionDirective being booked
    txInventories,\* bookTransaction: local `inventories`
    balance,      \* bookTransaction: running balance
    postings,     \* bookTransaction: booked postings so far
    step,         \* bookTransaction: the last input posting and what it emitted
    ledger,       \* load: the Ledger being loaded, its currencyMap
    startLedger,  \* book: `start`, the starting state passed in, or Absent
    currencyMap,  \* book: currency -> Currency directive (or Absent)
    heap          \* heap functions: the array, the range and the last call

vars == <<inv, call, calls, bm, accountMap, inventories, transactions, pc,
          result, ndirectives, npostings, txn, txInventories, balance,
          postings, step, ledger, startLedger, currencyMap, heap>>

invVars == <<inv, call, calls, heap>>
bookVars == <<accountMap, inventories, transactions, pc, result, ndirectives,
              npostings, txn, txInventories, balance, postings, step, ledger,
              startLedger, currencyMap>>

----------------------------------------------------------------------------
(* Bounds of the model *)

MaxCalls == 2
MaxLots == 3
MaxDirectives == 3
MaxBookDirectives == 2
MaxPostings == 3

None == "null"

----------------------------------------------------------------------------
(* Exact rationals (the exactnumber library): numerator / denominator in   *)
(* lowest terms with a positive denominator.                               *)

Abs(n) == IF n < 0 THEN -n ELSE n

RECURSIVE GCD(_, _)
GCD(a, b) == IF b = 0 THEN a ELSE GCD(b, a % b)

Normalize(n, d) ==
    LET s == IF d < 0 THEN -1 ELSE 1
        g == GCD(Abs(n), Abs(d))
    IN  [num |-> (s * n) \div g, den |-> (s * d) \div g]

Rat(n) == [num |-> n, den |-> 1]
ZERO == Rat(0)

RIsZero(a) == a.num = 0
RNeg(a) == [num |-> -a.num, den |-> a.den]
RAbs(a) == [num |-> Abs(a.num), den |-> a.den]
RAddRounded(a, b) ==
    Rat((a.num * b.den + b.num * a.den) \div (a.den * b.den))

RAdd(a, b) == Normalize(a.num * b.den + b.num * a.den, a.den * b.den)
RSub(a, b) == Normalize(a.num * b.den - b.num * a.den, a.den * b.den)
RMul(a, b) == Normalize(a.num * b.num, a.den * b.den)
RDiv(a, b) == Normalize(a.num * b.den, a.den * b.num)
RLt(a, b) == a.num * b.den < b.num * a.den
RLte(a, b) == a.num * b.den <= b.num * a.den
RGt(a, b) == RLt(b, a)

----------------------------------------------------------------------------
(* Amount *)

Amount(r, c) == [amount |-> r, currency |-> c]
Amt(n, c) == Amount(Rat(n), c)

AmountZero(c) == Amount(ZERO, c)
IsZero(a) == RIsZero(a.amount)
IsPos(a) == RGt(a.amount, ZERO)
AmountNeg(a) == Amount(RNeg(a.amount), a.currency)
AmountAbs(a) == Amount(RAbs(a.amount), a.currency)
AmountAddMissingTerm(a, b) == a
AmountAdd(a, b) == Amount(RAdd(a.amount, b.amount), a.currency)
AmountSubSwapped(a, b) == Amount(RSub(b.amount, a.amount), a.currency)
AmountSub(a, b) == Amount(RSub(a.amount, b.amount), a.currency)
AmountMul(a, r) == Amount(RMul(a.amount, r), a.currency)
AmountDiv(a, r) == Amount(RDiv(a.amount, r), a.currency)
AmountLteReversed(a, b) == RLte(b.amount, a.amount)
AmountLte(a, b) == RLte(a.amount, b.amount)
AmountGt(a, b) == RGt(a.amount, b.amount)

----------------------------------------------------------------------------
(* Cost and Position *)

NoCost == [none |-> TRUE]

Cost(amounts, date, dateSpec, tags) ==
    [amounts |-> amounts, date |-> date, dateSpec |-> dateSpec, tags |-> tags]

DateSpec(date) == [date |-> date, time |-> None, timezone |-> None]

Position(amount, cost) == [amount |-> amount, cost |-> cost]

Range(s) == {s[i] : i \in 1..Len(s)}

\* F applied to the value of v: v is evaluated once, however often F reads it
Let(v, F(_)) == CHOOSE r \in {F(x) : x \in {v}} : TRUE

----------------------------------------------------------------------------
(* Inventory.  An immutable Map is a sequence of entries in the order the  *)
(* small-map representation keeps them: a new key is appended, an existing *)
(* key is replaced in place, and a deleted entry is overwritten by the     *)
(* last one.                                                               *)

MapRemoveAt(s, i) ==
    LET front == SubSeq(s, 1, Len(s) - 1)
    IN  IF i = Len(s) THEN front ELSE [front EXCEPT ![i] = s[Len(s)]]

\* a key that would tell lots apart by their tags and date-specs as well
LotKeyOfWholeCost(position) ==
    IF position.cost = NoCost
    THEN [none |-> TRUE]
    ELSE [amounts |-> Range(position.cost.amounts),
          timestamp |-> position.cost.date,
          dateSpec |-> position.cost.dateSpec,
          tags |-> position.cost.tags]

\* key of CurrencyInventory.positions
LotKey(position) ==
    IF position.cost = NoCost
    THEN [none |-> TRUE]
    ELSE [amounts |-> Range(position.cost.amounts),
          timestamp |-> position.cost.date]

\* positions.get(key): the index of the entry of that key, 0 if there is none
LotIndex(positions, position) ==
    LET hits == {i \in 1..Len(positions) :
                    LotKey(positions[i]) = LotKey(position)}
    IN  IF hits = {} THEN 0 ELSE CHOOSE i \in hits : TRUE

\* inventories.get(currency): the index of the entry, 0 if there is none
CurrencyIndex(inventory, currency) ==
    LET hits == {i \in 1..Len(inventory) : inventory[i].currency = currency}
    IN  IF hits = {} THEN 0 ELSE CHOOSE i \in hits : TRUE

CurrencyInventoryEmpty == <<>>

CurrencyAddKeepZero(positions, position) ==
    LET idx == LotIndex(positions, position)
    IN  IF idx = 0
        THEN Append(positions, position)
        ELSE [positions EXCEPT ![idx] =
                Position(AmountAdd(positions[idx].amount, position.amount),
                         position.cost)]

\* CurrencyInventory.addPosition
CurrencyAddPosition(positions, position) ==
    LET idx == LotIndex(positions, position)
    IN  IF idx = 0
        THEN Append(positions, position)
        ELSE LET newPosition ==
                     Position(AmountAdd(positions[idx].amount, position.amount),
                              position.cost)
             IN  IF IsZero(newPosition.amount)
                 THEN MapRemoveAt(positions, idx)
                 ELSE [positions EXCEPT ![idx] = newPosition]

InventoryEmpty == <<>>

IsEmpty(inventory) == Len(inventory) = 0

\* one iteration of the loop of Inventory.addPositions
AddOne(inventory, position) ==
    IF IsZero(position.amount)
    THEN inventory
    ELSE LET currency == position.amount.currency
             idx == CurrencyIndex(inventory, currency)
             curInventory == IF idx = 0 THEN CurrencyInventoryEmpty
                             ELSE inventory[idx].positions
             newInventory == CurrencyAddPosition(curInventory, position)
             entry == [currency |-> currency, positions |-> newInventory]
         IN  IF Len(newInventory) = 0
             THEN IF idx = 0 THEN inventory ELSE MapRemoveAt(inventory, idx)
             ELSE IF idx = 0 THEN Append(inventory, entry)
                  ELSE [inventory EXCEPT ![idx] = entry]

RECURSIVE AddPositions(_, _)
AddPositions(inventory, positions) ==
    IF Len(positions) = 0
    THEN inventory
    ELSE Let(AddOne(inventory, Head(positions)),
             LAMBDA next : AddPositions(next, Tail(positions)))

AddPosition(inventory, position) == AddPositions(inventory, <<position>>)

AddAmounts(inventory, amounts) ==
    AddPositions(inventory,
                 [i \in 1..Len(amounts) |-> Position(amounts[i], NoCost)])

AddAmount(inventory, amount) == AddAmounts(inventory, <<amount>>)

RECURSIVE Flatten(_)
Flatten(inventory) ==
    IF Len(inventory) = 0
    THEN <<>>
    ELSE Head(inventory).positions \o Flatten(Tail(inventory))

GetPositionsOfFirstCurrency(inventory) ==
    IF Len(inventory) = 0 THEN <<>> ELSE Head(inventory).positions

GetPositionsByCurrency(inventory) ==
    Flatten(SelectSeq(inventory, LAMBDA entry : entry.currency = "CHF"))
    \o Flatten(SelectSeq(inventory, LAMBDA entry : entry.currency # "CHF"))

GetPositions(inventory) == Flatten(inventory)

GetPositionsForCurrency(inventory, currency) ==
    LET idx == CurrencyIndex(inventory, currency)
    IN  IF idx = 0 THEN <<>> ELSE inventory[idx].positions

----------------------------------------------------------------------------
(* Binary max-heap over an array (utils/heap).  Arrays are 0-based in the  *)
(* source; At / Put translate the index.                                   *)

At(items, i) == items[i + 1]
Put(items, i, v) == [items EXCEPT ![i + 1] = v]

\* n >>> 1 on a 32-bit unsigned value
Shr1(n) == IF n >= 0 THEN n \div 2 ELSE 2147483647 + ((n \div 2) + 1)

FifoCmpNewestFirst(a, b) == a.cost.date < b.cost.date

\* const cmp of fifo.ts: the oldest lot is the heap's maximum
FifoCmp(a, b) == a.cost.date > b.cost.date

\* const cmp of lifo.ts: the newest lot is the heap's maximum
LifoCmp(a, b) == a.cost.date < b.cost.date

Compare(cmp, a, b) == IF cmp = "fifo" THEN FifoCmp(a, b) ELSE LifoCmp(a, b)

\* the greater child of the node whose left child is `child`
PickChild(items, cmp, first, size, child) ==
    IF child + 1 < size
       /\ Compare(cmp, At(items, first + child), At(items, first + child + 1))
    THEN child + 1
    ELSE child

\* an iteration of the do-while loop of siftDown has left `start`, `child`
\* and the array as they were: the loop never ends, the call never returns
NeverReturns(items) == Append(items, [returns |-> FALSE])

RECURSIVE SiftLoop(_, _, _, _, _, _, _)
SiftLoop(items, cmp, first, size, start, child, top) ==
    LET moved == Put(items, start, At(items, first + child))
        start1 == first + child
    IN  IF Shr1(size - 2) < child
        THEN Put(moved, start1, top)
        ELSE LET child1 == PickChild(moved, cmp, first, size, child * 2 + 1)
             IN  IF ~Compare(cmp, At(moved, first + child1), top)
                 THEN IF start1 = start /\ child1 = child
                      THEN NeverReturns(items)
                      ELSE SiftLoop(moved, cmp, first, size, start1, child1,
                                    top)
                 ELSE Put(moved, start1, top)

SiftDown(items, cmp, first, size, start) ==
    IF size < 2 \/ Shr1(size - 2) < start - first
    THEN items
    ELSE LET child == PickChild(items, cmp, first, size, (start - first) * 2 + 1)
         IN  IF Compare(cmp, At(items, first + child), At(items, start))
             THEN items
             ELSE SiftLoop(items, cmp, first, size, start, child,
                           At(items, start))

RECURSIVE MakeHeapFrom(_, _, _, _, _)
MakeHeapFrom(items, cmp, first, size, start) ==
    IF start < 0
    THEN items
    ELSE MakeHeapFrom(SiftDown(items, cmp, first, size, first + start),
                      cmp, first, size, start - 1)

MakeHeap(items, cmp, first, last) ==
    LET size == last - first
    IN  IF size > 1
        THEN MakeHeapFrom(items, cmp, first, size, Shr1(size - 2))
        ELSE items

PopHeap(items, cmp, first, last) ==
    LET size == last - first
    IN  IF size > 1
        THEN LET swapped == Put(Put(items, first, At(items, last - 1)),
                                last - 1, At(items, first))
             IN  SiftDown(swapped, cmp, first, size - 1, 0)
        ELSE items

\* the loop of isHeap compares every child, in ascending order, with its
\* parent, and returns false at the first child its parent is less than
isHeap(items, cmp, first, last) ==
    \A child \in 1..(last - first - 1) :
        ~Compare(cmp, At(items, first + (child - 1) \div 2),
                 At(items, first + child))

----------------------------------------------------------------------------
(* Booking methods *)

NoValue == [type |-> "absent"]

\* Metadata: the two keys the booker reads, each absent or a typed value
Meta(tradingAccount, bookingMethod) ==
    [tradingAccount |-> tradingAccount, bookingMethod |-> bookingMethod]

NoMeta == Meta(NoValue, NoValue)

BookedPosting(account, flag, amount, cost, meta) ==
    [account |-> account, flag |-> flag, amount |-> amount, cost |-> cost,
     meta |-> meta]

Left(error) == [ok |-> FALSE, error |-> error]

NoResult == [pending |-> TRUE]

\* the while loop of BookingMethod.book
RECURSIVE ReduceLoop(_, _, _, _, _, _, _, _)
ReduceLoop(cmp, account, flag, meta, amount, positions, inventory, out) ==
    IF IsZero(amount)
    THEN [ok |-> TRUE, postings |-> out, inventory |-> inventory]
    ELSE IF Len(positions) = 0
    THEN [ok |-> FALSE, error |-> "NotEnoughToReduce", account |-> account,
          remainder |-> amount]
    ELSE LET popped == PopHeap(positions, cmp, 0, Len(positions))
             position == popped[Len(popped)]
             rest == SubSeq(popped, 1, Len(popped) - 1)
         IN  IF IsPos(position.amount) = IsPos(amount)
             THEN ReduceLoop(cmp, account, flag, meta, amount, rest,
                             inventory, out)
             ELSE LET toAdd ==
                          IF AmountLte(AmountAbs(position.amount),
                                       AmountAbs(amount))
                          THEN AmountNeg(position.amount)
                          ELSE amount
                      positionToAdd == Position(toAdd, position.cost)
                  IN  ReduceLoop(cmp, account, flag, meta,
                                 AmountSub(amount, toAdd), rest,
                                 AddPosition(inventory, positionToAdd),
                                 Append(out, BookedPosting(account, flag,
                                         positionToAdd.amount,
                                         positionToAdd.cost, meta)))

MethodBook(cmp, account, flag, meta, amount, inventory) ==
    LET positions ==
            SelectSeq(GetPositionsForCurrency(inventory, amount.currency),
                      LAMBDA x : x.cost # NoCost)
    IN  ReduceLoop(cmp, account, flag, meta, amount,
                   MakeHeap(positions, cmp, 0, Len(positions)), inventory,
                   <<>>)

LIFO(account, flag, meta, amount, inventory) ==
    MethodBook("lifo", account, flag, meta, amount, inventory)

FIFO(account, flag, meta, amount, inventory) ==
    MethodBook("fifo", account, flag, meta, amount, inventory)

----------------------------------------------------------------------------
(* The booker (booking.ts) *)

AllAccounts == {"Assets:A", "Assets:B", "Trading:Default"}

Absent == [type |-> "absent"]
NoAmount == [none |-> TRUE]
NoCostSpec == [none |-> TRUE]
NoApprox == [none |-> TRUE]

OptionMap(checks, bookingMethod) ==
    [checks |-> checks, bookingMethod |-> bookingMethod]

CostSpec(kind, amounts, currencies, dateSpecs, dates, tags) ==
    [kind |-> kind, amounts |-> amounts, currencies |-> currencies,
     dateSpecs |-> dateSpecs, dates |-> dates, tags |-> tags]

Posting(account, amount, costSpec, meta) ==
    [account |-> account, flag |-> "*", amount |-> amount,
     costSpec |-> costSpec, meta |-> meta]

Right(state) == [ok |-> TRUE, right |-> state]

Thrown(error) == [ok |-> FALSE, error |-> error, thrown |-> TRUE]

validModes == {"none", "lenient", "strict"}

checkValidAccountAllowClosed(accounts, optionMap, account, allowClosed) ==
    LET state == accounts[account]
        referenceChecksMode ==
            IF optionMap.checks = None THEN "lenient" ELSE optionMap.checks
    IN  IF referenceChecksMode \notin validModes
        THEN Left("InvalidOption")
        ELSE IF referenceChecksMode = "none"
        THEN Right(state)
        ELSE IF state = Absent /\ referenceChecksMode = "strict"
        THEN Left("AccountNotOpen")
        ELSE Right(state)

checkValidAccount(accounts, optionMap, account, allowClosed) ==
    LET state == accounts[account]
        referenceChecksMode ==
            IF optionMap.checks = None THEN "lenient" ELSE optionMap.checks
    IN  IF referenceChecksMode \notin validModes
        THEN Left("InvalidOption")
        ELSE IF referenceChecksMode = "none"
        THEN Right(state)
        ELSE IF state.type = "close" /\ ~allowClosed
        THEN Left("AccountClosed")
        ELSE IF state = Absent /\ referenceChecksMode = "strict"
        THEN Left("AccountNotOpen")
        ELSE Right(state)

\* doBook: every posting goes to its account's inventory and to the balance
RECURSIVE doBookLoop(_, _, _)
doBookLoop(invs, bal, ps) ==
    IF Len(ps) = 0
    THEN [inventories |-> invs, balance |-> bal]
    ELSE LET posting == Head(ps)
         IN  Let(<<[invs EXCEPT ![posting.account] =
                      AddPosition(@, Position(posting.amount, posting.cost))],
                   AddAmount(bal, posting.amount)>>,
                 LAMBDA next : doBookLoop(next[1], next[2], Tail(ps)))

doBookKeepBalance(invs, bal, ps) ==
    LET r == doBookLoop(invs, bal, ps)
    IN  [ok |-> TRUE, postings |-> ps, inventories |-> r.inventories,
         balance |-> bal]

doBook(invs, bal, ps) ==
    Let(doBookLoop(invs, bal, ps),
        LAMBDA r : [ok |-> TRUE, postings |-> ps,
                    inventories |-> r.inventories, balance |-> r.balance])

getTotalAmountOfMagnitude(amount, baseAmount, costSpec) ==
    IF costSpec.kind = "total"
    THEN amount
    ELSE AmountMul(amount, RAbs(baseAmount.amount))

getTotalAmount(amount, baseAmount, costSpec) ==
    IF costSpec.kind = "total"
    THEN amount
    ELSE AmountMul(amount, baseAmount.amount)

getPerUnitAmount(amount, baseAmount, costSpec) ==
    IF costSpec.kind = "per-unit"
    THEN amount
    ELSE AmountDiv(amount, baseAmount.amount)

openOrNull(accountDirective) ==
    IF accountDirective.type = "open" THEN accountDirective ELSE Absent

metaOf(directive) == IF directive = Absent THEN NoMeta ELSE directive.meta

getTradingAccountOfAnyType(transaction, posting, openDirective) ==
    LET metas == <<posting.meta, transaction.meta, metaOf(openDirective)>>
        hits == {i \in 1..3 : metas[i].tradingAccount # NoValue}
    IN  IF hits = {}
        THEN "Trading:Default"
        ELSE metas[CHOOSE i \in hits : \A j \in hits : i <= j]
                 .tradingAccount.value

getTradingAccount(transaction, posting, openDirective) ==
    LET metas == <<posting.meta, transaction.meta, metaOf(openDirective)>>
        hits == {i \in 1..3 : metas[i].tradingAccount.type = "account"}
    IN  IF hits = {}
        THEN "Trading:Default"
        ELSE metas[CHOOSE i \in hits : \A j \in hits : i <= j]
                 .tradingAccount.value

getBookingMethod(transaction, posting, openDirective) ==
    LET metas == <<posting.meta, transaction.meta, metaOf(openDirective)>>
        hits == {i \in 1..3 : metas[i].bookingMethod.type = "string"}
        methodName ==
            IF hits # {}
            THEN metas[CHOOSE i \in hits : \A j \in hits : i <= j]
                     .bookingMethod.value
            ELSE IF transaction.optionMap.bookingMethod = None
            THEN "fifo"
            ELSE transaction.optionMap.bookingMethod
    IN  IF methodName \in {"fifo", "lifo"}
        THEN Right(methodName)
        ELSE Left("InvalidOption")

validateCostSpecForAugmentation(costSpec) ==
    IF Len(costSpec.dates) > 1 \/ Len(costSpec.dateSpecs) > 1
    THEN Left("AugmentationMultipleDates")
    ELSE IF Len(costSpec.currencies) > 0
    THEN Left("AugmentationHasCurrencyFilter")
    ELSE Right({})

dateSpecMatchesOnDate(dateSpec, match) == dateSpec.date = match.date

dateSpecMatches(dateSpec, match) ==
    IF dateSpec.date # match.date THEN FALSE
    ELSE IF match.time = None THEN TRUE
    ELSE IF dateSpec.time # match.time THEN FALSE
    ELSE IF match.timezone = None THEN TRUE
    ELSE dateSpec.timezone = match.timezone

reductionMatchBothDates(position, costSpec) ==
    /\ position.cost # NoCost
    /\ \/ Len(costSpec.currencies) = 0
       \/ \E i \in 1..Len(position.cost.amounts) :
             position.cost.amounts[i].currency \in Range(costSpec.currencies)
    /\ \/ Len(costSpec.tags) = 0
       \/ \E i \in 1..Len(position.cost.tags) :
             position.cost.tags[i] \in Range(costSpec.tags)
    /\ \/ Len(costSpec.dates) = 0
       \/ position.cost.date \in Range(costSpec.dates)
    /\ \/ Len(costSpec.dateSpecs) = 0
       \/ \E i \in 1..Len(costSpec.dateSpecs) :
             dateSpecMatches(position.cost.dateSpec, costSpec.dateSpecs[i])

\* the predicate filterInventoryForReduction hands to partitionInventory
reductionMatch(position, costSpec) ==
    LET currencies == Range(costSpec.currencies)
        tags == Range(costSpec.tags)
        timestamps == Range(costSpec.dates)
        cost == position.cost
        currencyMatch ==
            currencies = {}
            \/ \E i \in 1..Len(cost.amounts) :
                  cost.amounts[i].currency \in currencies
        tagsMatch ==
            tags = {} \/ \E i \in 1..Len(cost.tags) : cost.tags[i] \in tags
        timestampMatch == timestamps = {} \/ cost.date \in timestamps
        dateSpecMatch ==
            Len(costSpec.dateSpecs) = 0
            \/ \E i \in 1..Len(costSpec.dateSpecs) :
                  dateSpecMatches(cost.dateSpec, costSpec.dateSpecs[i])
    IN  /\ position.cost # NoCost
        /\ currencyMatch
        /\ tagsMatch
        /\ (timestampMatch \/ dateSpecMatch)

partitionInventory(inventory, costSpec) ==
    LET all == GetPositions(inventory)
        ok == SelectSeq(all, LAMBDA p : reductionMatch(p, costSpec))
        ko == SelectSeq(all, LAMBDA p : ~reductionMatch(p, costSpec))
    IN  IF Len(ok) = 0
        THEN <<InventoryEmpty, inventory>>
        ELSE IF Len(ko) = 0
        THEN <<inventory, InventoryEmpty>>
        ELSE <<AddPositions(InventoryEmpty, ok),
               AddPositions(InventoryEmpty, ko)>>

filterInventoryForReduction(inventory, costSpec) ==
    partitionInventory(inventory, costSpec)

mergeInventories(a, b) ==
    IF IsEmpty(a) THEN b
    ELSE IF IsEmpty(b) THEN a
    ELSE AddPositions(a, GetPositions(b))

tradingPostingsNotNegated(tradingAccount, flag, amount, totals) ==
    <<BookedPosting(tradingAccount, flag, amount, NoCost, NoMeta)>>
    \o [i \in 1..Len(totals) |->
          BookedPosting(tradingAccount, flag, totals[i], NoCost, NoMeta)]

\* the trading-account postings that follow one posting of cost amounts
tradingPostings(tradingAccount, flag, amount, totals) ==
    <<BookedPosting(tradingAccount, flag, AmountNeg(amount), NoCost, NoMeta)>>
    \o [i \in 1..Len(totals) |->
          BookedPosting(tradingAccount, flag, totals[i], NoCost, NoMeta)]

\* bookPosting, both cost and amount known
bookAugmentation(transaction, posting, invs, bal, tradingAccount) ==
    LET postingAmount == posting.amount
        costSpec == posting.costSpec
        valid == validateCostSpecForAugmentation(costSpec)
    IN  IF ~valid.ok
        THEN valid
        ELSE IF costSpec.kind # "per-unit" /\ IsZero(postingAmount)
        THEN Thrown("DivisionByZero")
        ELSE LET cost ==
                     Cost([i \in 1..Len(costSpec.amounts) |->
                              getPerUnitAmount(costSpec.amounts[i],
                                               postingAmount, costSpec)],
                          IF Len(costSpec.dates) = 1
                          THEN costSpec.dates[1] ELSE transaction.date,
                          IF Len(costSpec.dateSpecs) = 1
                          THEN costSpec.dateSpecs[1]
                          ELSE transaction.dateSpec,
                          costSpec.tags)
                 totals ==
                     [i \in 1..Len(costSpec.amounts) |->
                         getTotalAmount(costSpec.amounts[i], postingAmount,
                                        costSpec)]
             IN  doBook(invs, bal,
                        <<BookedPosting(posting.account, posting.flag,
                                        postingAmount, cost, posting.meta)>>
                        \o tradingPostings(tradingAccount, posting.flag,
                                           postingAmount, totals))

\* the loop over the postings the booking method returned
RECURSIVE bookReductions(_, _, _, _, _)
bookReductions(reductions, invs, bal, tradingAccount, out) ==
    IF Len(reductions) = 0
    THEN [postings |-> out, inventories |-> invs, balance |-> bal]
    ELSE LET posting == Head(reductions)
             costs == IF posting.cost = NoCost THEN <<>>
                      ELSE posting.cost.amounts
         IN  Let(doBook(invs, bal,
                        <<posting>>
                        \o tradingPostings(
                               tradingAccount, posting.flag, posting.amount,
                               [i \in 1..Len(costs) |->
                                   AmountMul(costs[i],
                                             posting.amount.amount)])),
                 LAMBDA got :
                     bookReductions(Tail(reductions), got.inventories,
                                    got.balance, tradingAccount,
                                    out \o got.postings))

\* the reductions of the booking method, booked together with their
\* trading-account postings
bookReduced(posting, invs, bal, tradingAccount, inventoryRest, bookResult) ==
    IF ~bookResult.ok
    THEN bookResult
    ELSE Let(bookReductions(bookResult.postings, invs, bal, tradingAccount,
                            <<>>),
             LAMBDA got :
                 [ok |-> TRUE,
                  postings |-> got.postings,
                  inventories |->
                      [got.inventories EXCEPT ![posting.account] =
                          mergeInventories(inventoryRest,
                                           bookResult.inventory)],
                  balance |-> got.balance])

\* bookPosting once the inventory is split into the usable lots and the rest
bookUsable(transaction, posting, invs, bal, accountDirective, tradingAccount, inventoryUsable, inventoryRest) ==
    LET method == getBookingMethod(transaction, posting,
                                   openOrNull(accountDirective))
    IN  IF ~method.ok
        THEN method
        ELSE Let(IF method.right = "fifo"
                 THEN FIFO(posting.account, posting.flag, posting.meta,
                           posting.amount, inventoryUsable)
                 ELSE LIFO(posting.account, posting.flag, posting.meta,
                           posting.amount, inventoryUsable),
                 LAMBDA bookResult :
                     bookReduced(posting, invs, bal, tradingAccount,
                                 inventoryRest, bookResult))

\* bookPosting, amount known and cost not
bookReduction(transaction, posting, invs, bal, accountDirective, tradingAccount) ==
    Let(filterInventoryForReduction(invs[posting.account], posting.costSpec),
        LAMBDA parts :
            bookUsable(transaction, posting, invs, bal, accountDirective,
                       tradingAccount, parts[1], parts[2]))

bookPosting(transaction, posting, invs, bal, accountDirective) ==
    IF posting.costSpec # NoCostSpec
    THEN LET tradingAccount ==
                 getTradingAccount(transaction, posting,
                                   openOrNull(accountDirective))
         IN  IF posting.amount # NoAmount /\ Len(posting.costSpec.amounts) > 0
             THEN bookAugmentation(transaction, posting, invs, bal,
                                   tradingAccount)
             ELSE IF posting.amount # NoAmount
             THEN bookReduction(transaction, posting, invs, bal,
                                accountDirective, tradingAccount)
             ELSE Left("InferenceUnsupported")
    ELSE IF posting.amount # NoAmount
    THEN doBook(invs, bal,
                <<BookedPosting(posting.account, posting.flag, posting.amount,
                                NoCost, posting.meta)>>)
    ELSE LET residual == GetPositions(bal)
         IN  doBook(invs, bal,
                    [i \in 1..Len(residual) |->
                        BookedPosting(posting.account, posting.flag,
                                      AmountNeg(residual[i].amount), NoCost,
                                      posting.meta)])

currencyCheckFirstPosting(accountDirective, bookedPostings) ==
    LET allowedCurrencies ==
            IF accountDirective.type = "open"
            THEN accountDirective.currencies ELSE <<>>
    IN  IF /\ Len(allowedCurrencies) > 0
           /\ Len(bookedPostings) > 0
           /\ bookedPostings[1].amount.currency \notin Range(allowedCurrencies)
        THEN Left("CurrencyNotAllowed")
        ELSE Right({})

\* the currency restriction of the posting account's Open directive
currencyCheck(accountDirective, bookedPostings) ==
    LET allowedCurrencies ==
            IF accountDirective.type = "open"
            THEN accountDirective.currencies ELSE <<>>
    IN  IF /\ Len(allowedCurrencies) > 0
           /\ \E i \in 1..Len(bookedPostings) :
                 bookedPostings[i].amount.currency
                     \notin Range(allowedCurrencies)
        THEN Left("CurrencyNotAllowed")
        ELSE Right({})

\* one iteration that would also check the account of every booked posting
bookTransactionStepCheckingBooked(transaction, posting, invs, bal, accounts) ==
    LET accountCheck ==
            checkValidAccount(accounts, transaction.optionMap,
                              posting.account, FALSE)
    IN  IF ~accountCheck.ok
        THEN accountCheck
        ELSE Let(bookPosting(transaction, posting, invs, bal,
                             accountCheck.right),
                 LAMBDA got :
                     IF ~got.ok
                     THEN got
                     ELSE LET allowed == currencyCheck(accountCheck.right,
                                                       got.postings)
                              checks ==
                                  [i \in 1..Len(got.postings) |->
                                      checkValidAccount(
                                          accounts, transaction.optionMap,
                                          got.postings[i].account, FALSE)]
                              bad == {i \in 1..Len(checks) : ~checks[i].ok}
                          IN  IF ~allowed.ok THEN allowed
                              ELSE IF bad # {}
                              THEN checks[CHOOSE i \in bad :
                                             \A j \in bad : i <= j]
                              ELSE got)

\* one iteration of the loop of bookTransaction
bookTransactionStep(transaction, posting, invs, bal, accounts) ==
    LET accountCheck ==
            checkValidAccount(accounts, transaction.optionMap,
                              posting.account, FALSE)
    IN  IF ~accountCheck.ok
        THEN accountCheck
        ELSE Let(bookPosting(transaction, posting, invs, bal,
                             accountCheck.right),
                 LAMBDA got :
                     IF ~got.ok
                     THEN got
                     ELSE LET allowed == currencyCheck(accountCheck.right,
                                                       got.postings)
                          IN  IF ~allowed.ok THEN allowed ELSE got)

\* what bookPosting returned for a posting that passed the account check:
\* the bookedPostings the currency check iterates over
bookedPostings(transaction, posting, invs, bal, accounts) ==
    LET accountCheck ==
            checkValidAccount(accounts, transaction.optionMap,
                              posting.account, FALSE)
    IN  IF ~accountCheck.ok
        THEN [ok |-> FALSE]
        ELSE LET got == bookPosting(transaction, posting, invs, bal,
                                    accountCheck.right)
             IN  IF ~got.ok THEN [ok |-> FALSE]
                 ELSE [ok |-> TRUE, postings |-> got.postings]

balanceActualWithoutLots(invs, bal) ==
    LET held == SelectSeq(GetPositionsForCurrency(invs[bal.account],
                                                  bal.amount.currency),
                          LAMBDA p : p.cost = NoCost)
        Sum[i \in 0..Len(held)] ==
            IF i = 0 THEN AmountZero(bal.amount.currency)
            ELSE AmountAdd(Sum[i - 1], held[i].amount)
    IN  Sum[Len(held)]

\* the balance of one (account, amount, approx) triple of a balance directive
balanceActual(invs, bal) ==
    LET held == GetPositionsForCurrency(invs[bal.account],
                                        bal.amount.currency)
        Sum[i \in 0..Len(held)] ==
            IF i = 0 THEN AmountZero(bal.amount.currency)
            ELSE AmountAdd(Sum[i - 1], held[i].amount)
    IN  Sum[Len(held)]

checkBalanceExact(accounts, optionMap, invs, bal) ==
    LET amount == balanceActual(invs, bal)
        delta == AmountSub(bal.amount, amount)
    IN  IF ~IsZero(delta)
        THEN [ok |-> FALSE, error |-> "BalanceMismatch",
              account |-> bal.account, expected |-> bal.amount,
              actual |-> amount, delta |-> delta,
              maxDelta |-> AmountZero(bal.amount.currency)]
        ELSE Right({})

checkBalance(accounts, optionMap, invs, bal) ==
    LET accountCheck == checkValidAccount(accounts, optionMap, bal.account,
                                          TRUE)
    IN  IF ~accountCheck.ok
        THEN accountCheck
        ELSE LET amount == balanceActual(invs, bal)
                 delta == AmountSub(bal.amount, amount)
                 maxDelta ==
                     Amount(IF bal.approx = NoApprox THEN ZERO
                            ELSE RAbs(bal.approx),
                            bal.amount.currency)
             IN  IF AmountGt(AmountAbs(delta), maxDelta)
                 THEN [ok |-> FALSE, error |-> "BalanceMismatch",
                       account |-> bal.account, expected |-> bal.amount,
                       actual |-> amount, delta |-> delta,
                       maxDelta |-> maxDelta]
                 ELSE Right({})

RECURSIVE checkBalances(_, _, _, _)
checkBalances(accounts, optionMap, invs, balances) ==
    IF Len(balances) = 0
    THEN Right({})
    ELSE LET one == checkBalance(accounts, optionMap, invs, Head(balances))
         IN  IF ~one.ok THEN one
             ELSE checkBalances(accounts, optionMap, invs, Tail(balances))

----------------------------------------------------------------------------
(* book: the loop over ledger.directives, one action per directive type,  *)
(* and the loop of bookTransaction over the postings of a transaction.    *)

NoAccounts == [a \in AllAccounts |-> Absent]
NoInventories == [a \in AllAccounts |-> InventoryEmpty]
Currencies == {"USD", "CHF"}
NoCurrencies == [c \in Currencies |-> Absent]
Running == [state |-> "running"]
NoStep == [posting |-> Absent]

\* what the booker reads of a registered Open / Close directive
Registered(directive) ==
    IF directive.type = "open"
    THEN [type |-> "open", account |-> directive.account,
          currencies |-> directive.currencies, meta |-> directive.meta]
    ELSE [type |-> "close", account |-> directive.account,
          meta |-> directive.meta]

\* return E.left(new BookingError(..., directive)); an exception thrown
\* below book is caught nowhere and leaves book without a value
Fail(error, directive) ==
    /\ result' = [state |-> IF "thrown" \in DOMAIN error THEN "thrown"
                            ELSE "left",
                  error |-> error, directive |-> directive]
    /\ pc' = "done"

NextDirective ==
    /\ pc = "directive"
    /\ ndirectives' = ndirectives + 1

txnVars == <<txn, txInventories, balance, postings, step, npostings>>

BookBalance(directive) ==
    /\ NextDirective
    /\ LET got == checkBalances(accountMap, directive.optionMap, inventories,
                                directive.balances)
       IN  IF ~got.ok
           THEN Fail(got, directive)
           ELSE UNCHANGED <<result, pc>>
    /\ UNCHANGED <<accountMap, inventories, transactions, txnVars>>
    /\ UNCHANGED <<invVars, bm, ledger, startLedger, currencyMap>>

BookCloseAgain(directive) ==
    /\ NextDirective
    /\ LET accountCheck == checkValidAccount(accountMap, directive.optionMap,
                                             directive.account, TRUE)
       IN  IF ~accountCheck.ok
           THEN Fail(accountCheck, directive) /\ UNCHANGED accountMap
           ELSE /\ accountMap' = [accountMap EXCEPT ![directive.account] =
                                     Registered(directive)]
                /\ UNCHANGED <<result, pc>>
    /\ UNCHANGED <<inventories, transactions, txnVars>>
    /\ UNCHANGED <<invVars, bm, ledger, startLedger, currencyMap>>

BookClose(directive) ==
    /\ NextDirective
    /\ LET accountCheck == checkValidAccount(accountMap, directive.optionMap,
                                             directive.account, TRUE)
       IN  IF ~accountCheck.ok
           THEN Fail(accountCheck, directive) /\ UNCHANGED accountMap
           ELSE IF accountCheck.right.type = "close"
           THEN Fail(Left("AlreadyClosed"), directive) /\ UNCHANGED accountMap
           ELSE /\ accountMap' = [accountMap EXCEPT ![directive.account] =
                                     Registered(directive)]
                /\ UNCHANGED <<result, pc>>
    /\ UNCHANGED <<inventories, transactions, txnVars>>
    /\ UNCHANGED <<invVars, bm, ledger, startLedger, currencyMap>>

BookOpenOnce(directive) ==
    /\ NextDirective
    /\ IF accountMap[directive.account] # Absent
       THEN Fail(Left("AlreadyOpen"), directive) /\ UNCHANGED accountMap
       ELSE /\ accountMap' = [accountMap EXCEPT ![directive.account] =
                                 Registered(directive)]
            /\ UNCHANGED <<result, pc>>
    /\ UNCHANGED <<inventories, transactions, txnVars>>
    /\ UNCHANGED <<invVars, bm, ledger, startLedger, currencyMap>>

BookOpen(directive) ==
    /\ NextDirective
    /\ IF accountMap[directive.account].type = "open"
       THEN Fail(Left("AlreadyOpen"), directive) /\ UNCHANGED accountMap
       ELSE /\ accountMap' = [accountMap EXCEPT ![directive.account] =
                                 Registered(directive)]
            /\ UNCHANGED <<result, pc>>
    /\ UNCHANGED <<inventories, transactions, txnVars>>
    /\ UNCHANGED <<invVars, bm, ledger, startLedger, currencyMap>>

\* case 'transaction': enter bookTransaction
BeginTransaction(directive) ==
    /\ NextDirective
    /\ pc' = "posting"
    /\ txn' = directive
    /\ txInventories' = inventories
    /\ balance' = InventoryEmpty
    /\ postings' = <<>>
    /\ step' = NoStep
    /\ UNCHANGED <<accountMap, inventories, transactions, result, npostings>>
    /\ UNCHANGED <<invVars, bm, ledger, startLedger, currencyMap>>

\* one iteration of `for (const posting of transaction.postings)`
BookPostingStep(posting) ==
    /\ pc = "posting"
    /\ npostings' = npostings + 1
    /\ txn' = [txn EXCEPT !.postings = Append(@, posting)]
    /\ \E got \in {bookTransactionStep(txn, posting, txInventories, balance,
                                         accountMap)} :
           /\ step' = [posting |-> posting,
                       state |-> accountMap[posting.account],
                       booked |->
                           IF got.ok
                           THEN [ok |-> TRUE, postings |-> got.postings]
                           ELSE bookedPostings(txn, posting, txInventories,
                                               balance, accountMap),
                       got |-> got]
           /\ IF ~got.ok
              THEN /\ Fail(got, txn')
                   /\ UNCHANGED <<txInventories, balance, postings>>
              ELSE /\ txInventories' = got.inventories
                   /\ balance' = got.balance
                   /\ postings' = postings \o got.postings
                   /\ UNCHANGED <<result, pc>>
    /\ UNCHANGED <<accountMap, inventories, transactions, ndirectives>>
    /\ UNCHANGED <<invVars, bm, ledger, startLedger, currencyMap>>

EndTransactionUnchecked ==
    /\ pc = "posting"
    /\ transactions' =
           Append(transactions,
                  [date |-> txn.date, meta |-> txn.meta,
                   postings |-> postings,
                   inventoriesBefore |-> inventories,
                   inventoriesAfter |-> txInventories])
    /\ inventories' = txInventories
    /\ pc' = "directive"
    /\ UNCHANGED result
    /\ UNCHANGED <<accountMap, ndirectives, txnVars>>
    /\ UNCHANGED <<invVars, bm, ledger, startLedger, currencyMap>>

\* the balance check that ends bookTransaction, and book's adoption of it
EndTransaction ==
    /\ pc = "posting"
    /\ IF ~IsEmpty(balance)
       THEN /\ Fail([ok |-> FALSE, error |-> "TransactionUnbalanced",
                     residual |-> balance], txn)
            /\ UNCHANGED <<transactions, inventories>>
       ELSE /\ transactions' =
                   Append(transactions,
                          [date |-> txn.date, meta |-> txn.meta,
                           postings |-> postings,
                           inventoriesBefore |-> inventories,
                           inventoriesAfter |-> txInventories])
            /\ inventories' = txInventories
            /\ pc' = "directive"
            /\ UNCHANGED result
    /\ UNCHANGED <<accountMap, ndirectives, txnVars>>
    /\ UNCHANGED <<invVars, bm, ledger, startLedger, currencyMap>>

\* ledger.directives is exhausted: return E.right(...)
Return ==
    /\ pc = "directive"
    /\ pc' = "done"
    /\ result' = [state |-> "right"]
    /\ UNCHANGED <<accountMap, inventories, transactions, ndirectives,
                   txnVars>>
    /\ UNCHANGED <<invVars, bm, ledger, startLedger, currencyMap>>

----------------------------------------------------------------------------
(* Values the Inventory API calls are exercised with *)

InvValues == {-1, 0, 1}

CostAt(n, c, date) == Cost(<<Amt(n, c)>>, date, DateSpec(date), <<>>)

\* two lots of different dates, a third that differs from the first in its
\* tags only, and a fourth that differs from the first in its date-spec only
\* (the same instant, written with its time)
InvCosts ==
    {NoCost, CostAt(1, "CHF", 1), CostAt(1, "CHF", 2),
     Cost(<<Amt(1, "CHF")>>, 1, DateSpec(1), <<"tag">>),
     Cost(<<Amt(1, "CHF")>>, 1,
          [date |-> 1, time |-> "00:00", timezone |-> None], <<>>)}

\* whole amounts, and 0.1 and 0.2
InvAmounts ==
    {Amt(n, "USD") : n \in InvValues}
    \cup {Amt(1, "CHF"), Amount(Normalize(1, 10), "USD"),
          Amount(Normalize(1, 5), "USD")}

InvPositions ==
    {Position(Amt(n, "USD"), c) : n \in InvValues, c \in InvCosts}
    \cup {Position(Amt(n, "CHF"), NoCost) : n \in {-1, 1}}

\* the positions handed to addPositions as a list
InvListPositions ==
    {Position(Amt(1, "USD"), NoCost), Position(Amt(0, "USD"), NoCost),
     Position(Amt(-1, "USD"), CostAt(1, "CHF", 1)),
     Position(Amt(1, "CHF"), NoCost)}

InvListAmounts == {Amt(1, "USD"), Amt(0, "USD"), Amt(-1, "CHF")}

SeqsUpTo(S, n) == UNION {[1..k -> S] : k \in 0..n}

MaxList == 2

BookIdle ==
    /\ accountMap = NoAccounts
    /\ inventories = NoInventories
    /\ transactions = <<>>
    /\ pc = "idle"
    /\ result = Running
    /\ ndirectives = 0
    /\ npostings = 0
    /\ txn = Absent
    /\ txInventories = NoInventories
    /\ balance = InventoryEmpty
    /\ postings = <<>>
    /\ step = NoStep
    /\ ledger = [currencyMap |-> NoCurrencies]
    /\ startLedger = Absent
    /\ currencyMap = NoCurrencies

MethodIdle == bm = [method |-> None]

InvIdle ==
    /\ inv = InventoryEmpty
    /\ call = [op |-> "none", args |-> <<>>, before |-> InventoryEmpty]
    /\ calls = 0
    /\ heap = [op |-> "none"]

InitInv == InvIdle /\ MethodIdle /\ BookIdle

InvCall(op, args) ==
    /\ calls < MaxCalls
    /\ calls' = calls + 1
    /\ call' = [op |-> op, args |-> args, before |-> inv]
    /\ UNCHANGED <<bm, bookVars, heap>>

InvAddAmount ==
    \E a \in InvAmounts :
        /\ InvCall("addAmount", <<Position(a, NoCost)>>)
        /\ inv' = AddAmount(inv, a)

InvAddAmounts ==
    \E as \in SeqsUpTo(InvListAmounts, MaxList) :
        /\ InvCall("addAmounts", [i \in 1..Len(as) |-> Position(as[i], NoCost)])
        /\ inv' = AddAmounts(inv, as)

InvAddPosition ==
    \E p \in InvPositions :
        /\ InvCall("addPosition", <<p>>)
        /\ inv' = AddPosition(inv, p)

InvAddPositions ==
    \E ps \in SeqsUpTo(InvListPositions, MaxList) :
        /\ InvCall("addPositions", ps)
        /\ inv' = AddPositions(inv, ps)

NextInv == InvAddAmount \/ InvAddAmounts \/ InvAddPosition \/ InvAddPositions

SpecInv == InitInv /\ [][NextInv]_vars

----------------------------------------------------------------------------
(* A booking-method call on an inventory built from a list of positions *)


MethodPositions ==
    {Position(Amt(n, "USD"), CostAt(1, "CHF", d)) :
        n \in {-1, 1, 2}, d \in {1, 2, 3}}
    \cup {Position(Amt(1, "USD"), NoCost),
          Position(Amt(1, "USD"), CostAt(2, "CHF", 1)),
          Position(Amt(1, "CHF"), NoCost)}

\* whole requests, and the request of -1.1
MethodAmounts ==
    {Amt(n, "USD") : n \in -3..2} \cup {Amount(Normalize(-11, 10), "USD")}

InitMethod ==
    /\ InvIdle
    /\ BookIdle
    /\ \E method \in {"fifo", "lifo"}, amount \in MethodAmounts,
          ps \in SeqsUpTo(MethodPositions, MaxLots) :
          bm = [method |-> method, amount |-> amount,
                inventory |-> AddPositions(InventoryEmpty, ps),
                result |-> NoResult]

MethodCall ==
    /\ bm.method # None
    /\ bm.result = NoResult
    /\ bm' = [bm EXCEPT !.result =
                IF bm.method = "fifo"
                THEN FIFO("Assets:Test", "*", NoMeta, bm.amount, bm.inventory)
                ELSE LIFO("Assets:Test", "*", NoMeta, bm.amount, bm.inventory)]
    /\ UNCHANGED <<invVars, bookVars>>

SpecMethod == InitMethod /\ [][MethodCall]_vars

----------------------------------------------------------------------------
(* book(ledger, start) on a ledger of at most MaxDirectives directives    *)

Accounts == {"Assets:A", "Assets:B"}

CheckModes == {None, "none", "lenient", "strict", "bogus"}

TransactionDirective(date, optionMap, meta) ==
    [type |-> "transaction", date |-> date, dateSpec |-> DateSpec(date),
     optionMap |-> optionMap, meta |-> meta, postings |-> <<>>]

Total(n, c) == CostSpec("total", <<Amt(n, c)>>, <<>>, <<>>, <<>>, <<>>)
AnyLot == CostSpec("per-unit", <<>>, <<>>, <<>>, <<>>, <<>>)

\* book a whole list of postings, as bookTransaction does
RECURSIVE bookPostings(_, _, _, _, _)
bookPostings(transaction, ps, invs, bal, accounts) ==
    IF Len(ps) = 0
    THEN [ok |-> TRUE, inventories |-> invs, balance |-> bal]
    ELSE Let(bookTransactionStep(transaction, Head(ps), invs, bal, accounts),
             LAMBDA got :
                 IF ~got.ok THEN got
                 ELSE bookPostings(transaction, Tail(ps), got.inventories,
                                   got.balance, accounts))

\* the dates of the transactions of an earlier call of book
StartDates == <<1, 2>>

\* the date of every directive booked after the start state
StartDate == StartDates[Len(StartDates)] + 1

\* no earlier call, or the call of a ledger that buys one lot of USD on each
\* of the start dates
Starts ==
    LET buy == <<Posting("Assets:A", Amt(1, "USD"),
                         CostSpec("per-unit", <<Amt(1, "CHF")>>, <<>>, <<>>,
                                  <<>>, <<>>),
                         NoMeta),
                 Posting("Assets:B", NoAmount, NoCostSpec, NoMeta)>>
        t(d) == TransactionDirective(d, OptionMap(None, None), NoMeta)
        first == bookPostings(t(StartDates[1]), buy, NoInventories, InventoryEmpty,
                              NoAccounts)
        second == bookPostings(t(StartDates[2]), buy, first.inventories, InventoryEmpty,
                               NoAccounts)
    IN  {[accountMap |-> NoAccounts, currencyMap |-> NoCurrencies,
          inventories |-> NoInventories],
         [accountMap |-> NoAccounts, currencyMap |-> NoCurrencies,
          inventories |-> second.inventories]}

OpenDirectives ==
    {[type |-> "open", account |-> a, currencies |-> cs, meta |-> NoMeta,
      optionMap |-> OptionMap(None, None)] :
        a \in Accounts, cs \in {<<>>, <<"USD">>}}

\* opens without currency restriction, under every mode
LedgerOpenDirectives ==
    {[type |-> "open", account |-> a, currencies |-> <<>>, meta |-> NoMeta,
      optionMap |-> OptionMap(m, None)] : a \in Accounts, m \in CheckModes}

CloseDirectives ==
    {[type |-> "close", account |-> a, meta |-> NoMeta,
      optionMap |-> OptionMap(m, None)] : a \in Accounts, m \in CheckModes}

BalanceDirectives ==
    {[type |-> "balance", optionMap |-> OptionMap(None, None),
      balances |-> <<[account |-> "Assets:A", amount |-> e, approx |-> t]>>] :
        e \in {Amt(0, "USD"), Amt(1, "USD"), Amt(2, "USD"), Amt(1, "CHF")},
        t \in {NoApprox, Rat(-1)}}

\* postings without cost: fully specified, or elastic
PlainPostings ==
    {Posting(a, Amt(1, "USD"), NoCostSpec, NoMeta) : a \in Accounts}
    \cup {Posting(a, NoAmount, NoCostSpec, NoMeta) : a \in Accounts}

\* augmentations, reductions, plain and elastic postings
Postings ==
    {Posting("Assets:A", Amt(2, "USD"), Total(1, "CHF"), NoMeta),
     Posting("Assets:A", Amt(-1, "USD"), AnyLot, NoMeta),
     Posting("Assets:A", Amt(-2, "USD"), AnyLot, NoMeta),
     Posting("Assets:A", Amt(1, "USD"), NoCostSpec, NoMeta),
     Posting("Assets:B", Amt(-1, "USD"), NoCostSpec, NoMeta),
     Posting("Assets:B", NoAmount, NoCostSpec, NoMeta)}

Init ==
    /\ InvIdle
    /\ MethodIdle
    /\ ledger = [currencyMap |-> NoCurrencies]
    /\ startLedger \in Starts
    /\ accountMap = startLedger.accountMap
    /\ currencyMap = startLedger.currencyMap
    /\ inventories = startLedger.inventories
    /\ transactions = <<>>
    /\ pc = "directive"
    /\ result = Running
    /\ ndirectives = 0
    /\ npostings = 0
    /\ txn = Absent
    /\ txInventories = NoInventories
    /\ balance = InventoryEmpty
    /\ postings = <<>>
    /\ step = NoStep

\* account life cycle: opens, closes and transactions under every
\* account-reference-checks mode
Next ==
    \/ /\ ndirectives < MaxDirectives
       /\ \/ \E d \in CloseDirectives : BookClose(d)
          \/ \E d \in LedgerOpenDirectives : BookOpen(d)
          \/ \E m \in CheckModes :
                BeginTransaction(
                    TransactionDirective(StartDate, OptionMap(m, None), NoMeta))
    \/ /\ npostings < MaxPostings
       /\ \E p \in PlainPostings : BookPostingStep(p)
    \/ EndTransaction
    \/ Return

Spec == Init /\ [][Next]_vars

\* lots at cost: opens, balance assertions and transactions that augment
\* and reduce, booked FIFO or LIFO
NextBook ==
    \/ /\ ndirectives < MaxBookDirectives
       /\ \/ \E d \in BalanceDirectives : BookBalance(d)
          \/ \E d \in OpenDirectives : BookOpen(d)
          \/ \E b \in {None, "lifo"} :
                BeginTransaction(
                    TransactionDirective(StartDate, OptionMap(None, b), NoMeta))
    \/ /\ npostings < MaxPostings
       /\ \E p \in Postings : BookPostingStep(p)
    \/ EndTransaction
    \/ Return

SpecBook == Init /\ [][NextBook]_vars

\* every inventory the program builds: through the Inventory API from the
\* empty inventory, or through book
SpecStore == (InitInv \/ Init) /\ [][(pc = "idle" /\ NextInv) \/ NextBook]_vars

----------------------------------------------------------------------------
(* load, then book(ledger) or book(ledger, start): the currency           *)
(* directives of the file, the bank-account example, and a second ledger  *)
(* booked on top of the result of the first                               *)

\* commodity and currency nodes of a ledger file, of two dates
CurrencyDirectives ==
    {[type |-> t, currency |-> c, date |-> d] :
        t \in {"commodity", "currency"}, c \in Currencies, d \in {1, 2}}

\* doLoad, case 'commodity' / case 'currency'
LoadCurrency(directive) ==
    /\ pc = "load"
    /\ IF ledger.currencyMap[directive.currency] # Absent
       THEN Fail(Left("DuplicateCurrency"), directive) /\ UNCHANGED ledger
       ELSE /\ ledger' = [ledger EXCEPT !.currencyMap[directive.currency] =
                             [type |-> "currency", date |-> directive.date,
                              currency |-> directive.currency]]
            /\ UNCHANGED <<result, pc>>
    /\ UNCHANGED <<accountMap, inventories, transactions, ndirectives,
                   txnVars, startLedger, currencyMap>>
    /\ UNCHANGED <<invVars, bm>>

\* the first statements of book(ledger, start)
BookStart ==
    /\ pc = "load"
    /\ pc' = "directive"
    /\ transactions' = <<>>
    /\ accountMap' =
           IF startLedger # Absent THEN startLedger.accountMap
           ELSE [a \in {"Assets:Bank", "Equity:Opening", "Trading:Default"}
                    |-> Absent]
    /\ currencyMap' =
           IF startLedger # Absent THEN startLedger.currencyMap
           ELSE ledger.currencyMap
    /\ inventories' =
           IF startLedger # Absent THEN startLedger.inventories
           ELSE [a \in {"Assets:Bank", "Equity:Opening", "Trading:Default"}
                    |-> InventoryEmpty]
    /\ ndirectives' = 0
    /\ npostings' = 0
    /\ UNCHANGED <<result, txn, txInventories, balance, postings, step>>
    /\ UNCHANGED <<invVars, bm, ledger, startLedger>>

\* the caller loads a second ledger, to book it from the result of the first
LoadNext ==
    /\ pc = "done"
    /\ result.state = "right"
    /\ startLedger = Absent
    /\ startLedger' = [accountMap |-> accountMap, currencyMap |-> currencyMap,
                       inventories |-> inventories]
    /\ ledger' = [currencyMap |-> NoCurrencies]
    /\ pc' = "load"
    /\ result' = Running
    /\ UNCHANGED <<accountMap, inventories, transactions, ndirectives,
                   txnVars, currencyMap>>
    /\ UNCHANGED <<invVars, bm>>

\* 10.00 CHF to the bank account, its elastic counterpart, and an
\* augmentation of no units at a total cost
BankPostings ==
    {Posting("Assets:Bank", Amt(10, "CHF"), NoCostSpec, NoMeta),
     Posting("Equity:Opening", NoAmount, NoCostSpec, NoMeta),
     Posting("Assets:Bank", Amt(0, "USD"), Total(1, "CHF"), NoMeta)}

\* balance Assets:Bank 10.01 CHF, exactly, ~ 0.02 and ~ 0.005
BankBalances ==
    {[type |-> "balance", optionMap |-> OptionMap(None, None),
      balances |-> <<[account |-> "Assets:Bank",
                      amount |-> Amount(Normalize(1001, 100), "CHF"),
                      approx |-> t]>>] :
        t \in {NoApprox, Normalize(2, 100), Normalize(5, 1000)}}

InitLedger ==
    /\ InvIdle
    /\ MethodIdle
    /\ accountMap = NoAccounts
    /\ inventories = NoInventories
    /\ transactions = <<>>
    /\ pc = "load"
    /\ result = Running
    /\ ndirectives = 0
    /\ npostings = 0
    /\ txn = Absent
    /\ txInventories = NoInventories
    /\ balance = InventoryEmpty
    /\ postings = <<>>
    /\ step = NoStep
    /\ ledger = [currencyMap |-> NoCurrencies]
    /\ startLedger = Absent
    /\ currencyMap = NoCurrencies

SpecLedger ==
    InitLedger /\ [][
    \/ \E d \in CurrencyDirectives : LoadCurrency(d)
    \/ BookStart
    \/ /\ ndirectives < MaxBookDirectives
       /\ \/ \E d \in BankBalances : BookBalance(d)
          \/ BeginTransaction(
                 TransactionDirective(StartDate, OptionMap(None, None), NoMeta))
    \/ /\ npostings < MaxPostings
       /\ \E p \in BankPostings : BookPostingStep(p)
    \/ EndTransaction
    \/ Return
    \/ LoadNext
    ]_vars

----------------------------------------------------------------------------
(* The trading account as an account of the ledger: opened with a list of  *)
(* currencies, closed, or never opened, while transactions under the       *)
(* lenient and the strict mode augment and reduce lots of Assets:A         *)

SpecTrading ==
    Init /\ [][
    \/ /\ ndirectives < MaxDirectives
       /\ \/ \E a \in {"Assets:A", "Trading:Default"},
                cs \in {<<>>, <<"CHF">>} :
                BookOpen([type |-> "open", account |-> a, currencies |-> cs,
                          meta |-> NoMeta,
                          optionMap |-> OptionMap(None, None)])
          \/ BookClose([type |-> "close", account |-> "Trading:Default",
                        meta |-> NoMeta, optionMap |-> OptionMap(None, None)])
          \/ \E m \in {None, "strict"} :
                BeginTransaction(
                    TransactionDirective(StartDate, OptionMap(m, None), NoMeta))
    \/ /\ npostings < MaxPostings
       /\ \E p \in {Posting("Assets:A", Amt(2, "USD"), Total(1, "CHF"), NoMeta),
                    Posting("Assets:A", Amt(-1, "USD"), AnyLot, NoMeta),
                    Posting("Assets:A", NoAmount, NoCostSpec, NoMeta)} :
             BookPostingStep(p)
    \/ EndTransaction
    \/ Return
    ]_vars

----------------------------------------------------------------------------
(* makeHeap and popHeap on a range of an array of lots, under the          *)
(* comparators of the two booking methods                                  *)

InitHeap ==
    /\ MethodIdle
    /\ BookIdle
    /\ inv = InventoryEmpty
    /\ call = [op |-> "none", args |-> <<>>, before |-> InventoryEmpty]
    /\ calls = 0
    /\ \E items \in SeqsUpTo({Position(Amt(1, "USD"), CostAt(1, "CHF", 1)),
                               Position(Amt(2, "USD"), CostAt(1, "CHF", 1)),
                               Position(Amt(1, "USD"), CostAt(1, "CHF", 2))},
                              MaxLots + 1),
          cmp \in {"fifo", "lifo"}, first \in {0, 1} :
          \E last \in first..Len(items) :
              heap = [op |-> "none", prev |-> "none", ops |-> 0,
                      items |-> items, cmp |-> cmp,
                      first |-> first, last |-> last, before |-> items,
                      returned |-> TRUE]

\* a call of a heap function: the array before and after, whether it returned
HeapCall(op, got) ==
    /\ heap.op # "none" \/ heap.ops = 0
    /\ heap.returned
    /\ heap.ops < MaxCalls
    /\ LET returned == got = <<>> \/ "returns" \notin DOMAIN got[Len(got)]
       IN  heap' = [heap EXCEPT !.op = op, !.prev = heap.op, !.ops = @ + 1,
                                !.before = heap.items,
                                !.items = IF returned THEN got ELSE heap.items,
                                !.returned = returned]
    /\ UNCHANGED <<inv, call, calls, bm, bookVars>>

MakeHeapCall ==
    HeapCall("makeHeap", MakeHeap(heap.items, heap.cmp, heap.first, heap.last))

\* popHeap is called on heaps only
PopHeapCall ==
    /\ isHeap(heap.items, heap.cmp, heap.first, heap.last)
    /\ HeapCall("popHeap", PopHeap(heap.items, heap.cmp, heap.first, heap.last))

SpecHeap == InitHeap /\ [][MakeHeapCall \/ PopHeapCall]_vars

----------------------------------------------------------------------------
(* One call of bookPosting, on a posting of a transaction of day 3 *)

\* the instants (in hours, default timezone UTC) and date-specs of the lots
\* and of the date filters: midnight of day 1, two spellings of 09:00 UTC of
\* day 1, midnight of day 2, 10:00 UTC of day 1
Stamps ==
    <<[date |-> 24,
       dateSpec |-> [date |-> 1, time |-> None, timezone |-> None]],
      [date |-> 33,
       dateSpec |-> [date |-> 1, time |-> "09:00", timezone |-> None]],
      [date |-> 33,
       dateSpec |-> [date |-> 1, time |-> "10:00", timezone |-> "+01:00"]],
      [date |-> 48,
       dateSpec |-> [date |-> 2, time |-> None, timezone |-> None]],
      [date |-> 34,
       dateSpec |-> [date |-> 1, time |-> "10:00", timezone |-> None]]>>

\* a lot of n VT of the i-th stamp
Lot(n, amounts, i, tags) ==
    Position(Amt(n, "VT"),
             Cost(amounts, Stamps[i].date, Stamps[i].dateSpec, tags))

\* the inventories of the posting account
PostingInventories ==
    {AddPositions(InventoryEmpty, ps) :
        ps \in {<<>>,
                <<Lot(2, <<Amt(150, "CHF")>>, 1, <<>>)>>,
                <<Lot(1, <<Amt(2, "CHF")>>, 3, <<"t">>),
                  Position(Amt(1, "VT"), NoCost),
                  Lot(1, <<Amt(1, "USD")>>, 2, <<>>),
                  Lot(2, <<Amt(150, "CHF")>>, 1, <<>>),
                  Position(Amt(5, "CHF"), NoCost)>>,
                <<Lot(2, <<Amt(2, "CHF"), Amt(1, "USD")>>, 4, <<"t", "u">>),
                  Lot(-1, <<Amt(2, "CHF")>>, 2, <<>>),
                  Lot(1, <<Amt(3, "CHF")>>, 3, <<>>),
                  Lot(1, <<Amt(4, "CHF")>>, 5, <<>>)>>}}

\* augmentations of either sign and kind, reductions under every
\* combination of filters, a plain posting, an elastic posting and a
\* posting whose amount would have to be inferred
PostingInputs ==
    {Posting("Assets:A", Amt(n, "VT"),
             CostSpec(kind, amounts, <<>>, <<>>, <<>>, <<>>), NoMeta) :
        n \in {-2, 2}, kind \in {"per-unit", "total"},
        amounts \in {<<Amt(3, "CHF")>>, <<Amt(3, "CHF"), Amt(1, "USD")>>}}
    \cup
    {Posting("Assets:A", Amt(n, "VT"),
             CostSpec("per-unit", <<>>, currencies,
                      [i \in 1..Len(stamps) |-> Stamps[stamps[i]].dateSpec],
                      [i \in 1..Len(stamps) |-> Stamps[stamps[i]].date],
                      tags),
             NoMeta) :
        n \in {-4, -2}, currencies \in {<<>>, <<"USD">>},
        stamps \in {<<>>, <<1>>, <<2>>, <<3>>, <<5>>}, tags \in {<<>>, <<"t">>}}
    \cup
    {Posting("Assets:A", Amt(1, "VT"), NoCostSpec, NoMeta),
     Posting("Assets:A", NoAmount, NoCostSpec, NoMeta),
     Posting("Assets:A", NoAmount, AnyLot, NoMeta)}

\* a trading-account metadata value: missing, an account, or a string
TradingValues(account) ==
    {NoValue, [type |-> "account", value |-> account],
     [type |-> "string", value |-> "Trading:Text"]}

InitPosting ==
    /\ InvIdle
    /\ BookIdle
    /\ \E posting \in PostingInputs, inventory \in PostingInventories,
          bal \in {InventoryEmpty,
                   AddAmounts(InventoryEmpty,
                              <<Amt(-300, "CHF"), Amt(2, "VT")>>)},
          p \in TradingValues("Trading:Posting")
                   \cup {[type |-> "account", value |-> "Assets:A"]},
          t \in TradingValues("Trading:Transaction"),
          o \in TradingValues("Trading:Open"),
          state \in {"absent", "open", "close"} :
          /\ state = "absent" => o = NoValue
          /\ bm = [method |-> "bookPosting",
                   transaction |->
                       [TransactionDirective(72, OptionMap(None, None),
                                             Meta(t, NoValue))
                           EXCEPT !.dateSpec = [date |-> 3, time |-> None,
                                                timezone |-> None]],
                   posting |-> [posting EXCEPT !.meta = Meta(p, NoValue)],
                   inventories |->
                       [a \in {"Assets:A", "Trading:Default",
                               "Trading:Posting", "Trading:Transaction",
                               "Trading:Open", "Trading:Text"} |->
                           IF a = "Assets:A" THEN inventory
                           ELSE InventoryEmpty],
                   balance |-> bal,
                   accountDirective |->
                       IF state = "absent" THEN Absent
                       ELSE Registered([type |-> state,
                                        account |-> "Assets:A",
                                        currencies |-> <<>>,
                                        meta |-> Meta(o, NoValue)]),
                   result |-> NoResult]

BookPostingCall ==
    /\ bm.method = "bookPosting"
    /\ bm.result = NoResult
    /\ bm' = [bm EXCEPT !.result =
                bookPosting(bm.transaction, bm.posting, bm.inventories,
                            bm.balance, bm.accountDirective)]
    /\ UNCHANGED <<invVars, bookVars>>

SpecPosting == InitPosting /\ [][BookPostingCall]_vars

----------------------------------------------------------------------------
(* Claims about booked transactions and inventories *)

\* the net of the amounts of a list of booked postings in one currency
NetOf(ps, c) ==
    LET Sum[i \in 0..Len(ps)] ==
            IF i = 0 THEN ZERO
            ELSE IF ps[i].amount.currency = c
            THEN RAdd(Sum[i - 1], ps[i].amount.amount)
            ELSE Sum[i - 1]
    IN  Sum[Len(ps)]

\* C1: in every transaction book has booked successfully, the amounts of
\* all booked postings (trading-account postings and the postings emitted
\* for an elastic posting included) sum to zero in every currency.
C1_BalanceLaw ==
    \A i \in 1..Len(transactions) :
        \A c \in Currencies :
            NetOf(transactions[i].postings, c) = ZERO

\* a booked transaction that reduces two lots, with trading-account
\* postings and the postings of an elastic posting
C1_Witness ==
    \E i \in 1..Len(transactions) :
        LET ps == transactions[i].postings
        IN  /\ \E j, k \in 1..Len(ps) :
                  /\ j # k
                  /\ ps[j].cost # NoCost /\ ps[k].cost # NoCost
                  /\ ~IsPos(ps[j].amount) /\ ~IsPos(ps[k].amount)
            /\ \E j \in 1..Len(ps) : ps[j].account = "Trading:Default"
            /\ \E j \in 1..Len(ps) :
                  ps[j].account = "Assets:B" /\ ps[j].amount.currency = "CHF"

\* no currency without lots and no lot with a zero amount
NoZeroPosition(inventory) ==
    \A i \in 1..Len(inventory) :
        /\ Len(inventory[i].positions) > 0
        /\ \A j \in 1..Len(inventory[i].positions) :
              inventory[i].positions[j].amount.amount.num # 0

\* C2: after any sequence of addAmount / addAmounts / addPosition /
\* addPositions calls from the empty inventory, and in every account
\* inventory of every snapshot of book, no stored position has a zero amount
\* and no currency is stored without lots; a call that adds only zero
\* amounts leaves the inventory as it was.
C2_NoZeroPosition ==
    /\ NoZeroPosition(inv)
    /\ (\A i \in 1..Len(call.args) : call.args[i].amount.amount.num = 0)
       => inv = call.before
    /\ \A a \in AllAccounts :
          /\ NoZeroPosition(inventories[a])
          /\ NoZeroPosition(txInventories[a])
          /\ \A i \in 1..Len(transactions) :
                /\ NoZeroPosition(transactions[i].inventoriesBefore[a])
                /\ NoZeroPosition(transactions[i].inventoriesAfter[a])

\* an addPositions call that brings the only lot of the only currency of
\* the inventory to zero
C2_Witness ==
    /\ call.op = "addPositions"
    /\ Len(call.before) = 1
    /\ Len(call.before[1].positions) = 1
    /\ call.before[1].positions[1].cost # NoCost
    /\ Len(call.args) = 2
    /\ call.args[1].amount.amount.num = 0
    /\ inv = InventoryEmpty

\* the entries of a currency other than the one at index idx (0: all)
Others(positions, idx) ==
    {positions[i] : i \in 1..Len(positions) \ {idx}}

\* the key of a lot: none without cost, else the set of (value, currency)
\* cost amounts and the lot instant
KeyOf(position) ==
    IF position.cost = NoCost
    THEN <<>>
    ELSE <<{<<position.cost.amounts[i].amount,
              position.cost.amounts[i].currency>> :
                i \in 1..Len(position.cost.amounts)},
           position.cost.date>>

\* C3: addPosition of a position whose currency and lot-key an entry of the
\* inventory already has replaces that entry by the sum of the two amounts,
\* or removes it when the sum is zero; addPosition of a (non-zero) position
\* with a lot-key the currency does not hold yet creates a separate entry;
\* every other entry is left unchanged.
C3_LotAggregation ==
    call.op = "addPosition"
    => LET p == call.args[1]
           c == p.amount.currency
           before == GetPositionsForCurrency(call.before, c)
           after == GetPositionsForCurrency(inv, c)
           same == {i \in 1..Len(before) : KeyOf(before[i]) = KeyOf(p)}
           merged == {i \in 1..Len(after) : KeyOf(after[i]) = KeyOf(p)}
       IN  /\ Cardinality(same) <= 1
           /\ \A d \in Currencies \ {c} :
                 GetPositionsForCurrency(inv, d)
                     = GetPositionsForCurrency(call.before, d)
           /\ \A i \in same :
                 LET sum == RAdd(before[i].amount.amount, p.amount.amount)
                 IN  IF sum.num = 0
                     THEN /\ merged = {}
                          /\ Others(after, 0) = Others(before, i)
                     ELSE \E j \in merged :
                             /\ merged = {j}
                             /\ after[j].amount = Amount(sum, c)
                             /\ Others(after, j) = Others(before, i)
           /\ (same = {} /\ p.amount.amount.num # 0)
              => \E j \in merged :
                    /\ merged = {j}
                    /\ after[j] = p
                    /\ Others(after, j) = Others(before, 0)
                    /\ Len(after) = Len(before) + 1

\* addPosition on a lot of a currency that also holds another entry brings
\* the sum of the lot to zero: the lot is gone, the other entry is kept
C3_Witness ==
    /\ call.op = "addPosition"
    /\ call.args[1].cost # NoCost
    /\ LET before == GetPositionsForCurrency(call.before, "USD")
           after == GetPositionsForCurrency(inv, "USD")
       IN  /\ Len(before) = 2
           /\ Len(after) = 1
           /\ before[1].cost = call.args[1].cost
           /\ after[1] = before[2]

----------------------------------------------------------------------------
(* Claims about the account life cycle *)

\* the directive failed with the named error
FailedWith(r, error) == r.state = "left" /\ r.error.error = error

ModeOf(optionMap) ==
    IF optionMap.checks = None THEN "lenient" ELSE optionMap.checks

\* C5: an Open for account A is registered as A's state iff A is absent from
\* the account map or A's state is a Close, and fails with AlreadyOpen iff
\* A's state is an Open, whatever the account-reference-checks mode of the
\* directive.
C5_OpenLifecycle ==
    [][\A d \in LedgerOpenDirectives :
          BookOpen(d)
          => LET state == accountMap[d.account]
             IN  /\ (accountMap'[d.account] = Registered(d) /\ result' = Running)
                    <=> (state = Absent \/ state.type = "close")
                 /\ FailedWith(result', "AlreadyOpen") <=> state.type = "open"
      ]_vars

\* three directives on one account have all succeeded and left it open:
\* Open, Close, Open
C5_Witness ==
    /\ ndirectives = 3
    /\ pc = "directive"
    /\ result = Running
    /\ transactions = <<>>
    /\ accountMap["Assets:A"].type = "open"
    /\ accountMap["Assets:B"] = Absent

\* C6 as stated: a Close for account A fails with AlreadyClosed if A's state
\* is a Close, and in every other case it is registered (here stated only
\* for the modes none, lenient and strict).
C6_CloseRegisteredUnlessClosed ==
    [][\A d \in CloseDirectives :
          (ModeOf(d.optionMap) \in validModes /\ BookClose(d))
          => IF accountMap[d.account].type = "close"
             THEN FailedWith(result', "AlreadyClosed")
             ELSE accountMap'[d.account] = Registered(d) /\ result' = Running
      ]_vars

\* C6, amended: a Close for account A fails with InvalidOption if its mode is
\* none of none, lenient, strict; else with AccountNotOpen if the mode is
\* strict and A is absent from the account map; else with AlreadyClosed if
\* A's state is a Close; in every other case it is registered as A's state.
C6_CloseLifecycle ==
    [][\A d \in CloseDirectives :
          BookClose(d)
          => LET state == accountMap[d.account]
                 mode == ModeOf(d.optionMap)
                 registered ==
                     accountMap'[d.account] = Registered(d) /\ result' = Running
             IN  IF mode \notin validModes
                 THEN FailedWith(result', "InvalidOption") /\ ~registered
                 ELSE IF state = Absent /\ mode = "strict"
                 THEN FailedWith(result', "AccountNotOpen") /\ ~registered
                 ELSE IF state.type = "close"
                 THEN FailedWith(result', "AlreadyClosed") /\ ~registered
                 ELSE registered
      ]_vars

\* a strict Close of an account that was never opened has failed
C6_Witness ==
    /\ FailedWith(result, "AccountNotOpen")
    /\ result.directive.type = "close"
    /\ ModeOf(result.directive.optionMap) = "strict"
    /\ accountMap[result.directive.account] = Absent

\* C7: under the mode of the transaction's option map (default lenient), a
\* posting to account A is rejected by the account check iff the mode is not
\* none and A's state is a Close, or A is absent and the mode is strict.
C7_PostingAccountCheck ==
    (step.posting # Absent /\ ModeOf(txn.optionMap) \in validModes)
    => LET mode == ModeOf(txn.optionMap)
           state == step.state
           closed == ~step.got.ok /\ step.got.error = "AccountClosed"
           notOpen == ~step.got.ok /\ step.got.error = "AccountNotOpen"
       IN  /\ closed <=> (mode # "none" /\ state.type = "close")
           /\ notOpen <=> (mode = "strict" /\ state = Absent)
           /\ (~closed /\ ~notOpen) => step.got.ok

\* a strict transaction whose first posting went to an open account and
\* whose second posting, to a never-opened account, was rejected
C7_Witness ==
    /\ step.posting # Absent
    /\ ModeOf(txn.optionMap) = "strict"
    /\ Len(txn.postings) = 2
    /\ step.state = Absent
    /\ FailedWith(result, "AccountNotOpen")

----------------------------------------------------------------------------
(* Claims about balance assertions and the checks of a transaction *)

\* C8: a balance assertion that passes the account check succeeds iff
\* |expected - actual| <= |tolerance|, actual being the sum of all positions
\* of expected's currency the account holds, with or without cost, and a
\* missing tolerance zero; otherwise it fails with BalanceMismatch carrying
\* expected, actual, delta and the maximal delta.
C8_BalanceAssertion ==
    [][\A d \in BalanceDirectives :
          BookBalance(d)
          => LET b == d.balances[1]
                 c == b.amount.currency
                 actual == NetOf(GetPositions(inventories[b.account]), c)
                 delta == RSub(b.amount.amount, actual)
                 tolerance == IF b.approx = NoApprox THEN ZERO ELSE b.approx
             IN  IF RLte(RAbs(delta), RAbs(tolerance))
                 THEN result' = Running
                 ELSE /\ FailedWith(result', "BalanceMismatch")
                      /\ result'.error.account = b.account
                      /\ result'.error.expected = b.amount
                      /\ result'.error.actual = Amount(actual, c)
                      /\ result'.error.delta = Amount(delta, c)
                      /\ result'.error.maxDelta = Amount(RAbs(tolerance), c)
      ]_vars

\* an assertion with a negative tolerance failed on an account that holds
\* two lots at cost and a position without cost of the asserted currency
C8_Witness ==
    /\ FailedWith(result, "BalanceMismatch")
    /\ result.error.actual = Amt(3, "USD")
    /\ result.error.maxDelta = Amt(1, "USD")
    /\ LET held == GetPositionsForCurrency(inventories["Assets:A"], "USD")
       IN  /\ Len(held) = 3
           /\ \E i \in 1..3 : held[i].cost = NoCost

\* C9: once an input posting to account A has been booked, the transaction
\* fails with CurrencyNotAllowed iff A's state is an Open with a non-empty
\* currencies list and some posting emitted for the input posting (a
\* trading-account posting included) has a currency outside the list.
C9_CurrencyRestriction ==
    (step.posting # Absent /\ step.booked.ok)
    => LET open == step.state
           emitted == step.booked.postings
           offending ==
               /\ open.type = "open"
               /\ Len(open.currencies) > 0
               /\ \E i \in 1..Len(emitted) :
                     emitted[i].amount.currency \notin Range(open.currencies)
       IN  /\ offending <=> FailedWith(result, "CurrencyNotAllowed")
           /\ ~offending => step.got.ok

\* a posting in an allowed currency failed because of the currency of a
\* trading-account posting emitted for it
C9_Witness ==
    /\ step.posting # Absent
    /\ step.booked.ok
    /\ FailedWith(result, "CurrencyNotAllowed")
    /\ step.posting.amount.currency \in Range(step.state.currencies)
    /\ \E i \in 1..Len(step.booked.postings) :
          /\ step.booked.postings[i].account = "Trading:Default"
          /\ step.booked.postings[i].amount.currency
                \notin Range(step.state.currencies)

\* C10: a transaction whose postings all booked fails with
\* TransactionUnbalanced iff the emitted postings do not net to zero in every
\* currency, and the residual it reports holds, for each currency, exactly
\* the net of the emitted postings.
C10_TransactionUnbalanced ==
    [][EndTransaction
       => LET unbalanced == \E c \in Currencies : NetOf(postings, c) # ZERO
          IN  /\ unbalanced <=> FailedWith(result', "TransactionUnbalanced")
              /\ ~unbalanced => result' = Running
              /\ unbalanced
                 => \A c \in Currencies :
                       GetPositionsForCurrency(result'.error.residual, c)
                           = IF NetOf(postings, c) = ZERO
                             THEN <<>>
                             ELSE <<Position(Amount(NetOf(postings, c), c),
                                             NoCost)>>
      ]_vars

\* three postings without cost, the last one negative, leave 1 USD
C10_Witness ==
    /\ FailedWith(result, "TransactionUnbalanced")
    /\ Len(postings) = 3
    /\ ~IsPos(postings[3].amount)
    /\ result.error.residual
           = <<[currency |-> "USD",
                positions |-> <<Position(Amt(1, "USD"), NoCost)>>]>>

----------------------------------------------------------------------------
(* Claims about the booking methods *)

MethodDone == bm.method # None /\ bm.result # NoResult

\* the lots a request can reduce: held at cost, of the requested currency,
\* of the sign opposite to the request
Eligible(inventory, amount) ==
    {p \in Range(GetPositionsForCurrency(inventory, amount.currency)) :
        p.cost # NoCost /\ IsPos(p.amount) # IsPos(amount)}

DistinctDates(lots) ==
    \A p, q \in lots : p # q => p.cost.date # q.cost.date

Before(method, d1, d2) == IF method = "fifo" THEN d1 < d2 ELSE d1 > d2

\* C4: when the eligible lots have pairwise distinct dates, FIFO emits its
\* reduction postings in strictly ascending lot-date order and LIFO in
\* strictly descending order, and a lot is touched only after every lot
\* before it in that order has been fully consumed.
C4_ReductionOrder ==
    (/\ MethodDone
     /\ bm.result.ok
     /\ DistinctDates(Eligible(bm.inventory, bm.amount)))
    => LET ps == bm.result.postings
       IN  /\ \A i, j \in 1..Len(ps) :
                i < j => Before(bm.method, ps[i].cost.date, ps[j].cost.date)
           /\ \A j \in 1..Len(ps) :
                \A lot \in Eligible(bm.inventory, bm.amount) :
                    Before(bm.method, lot.cost.date, ps[j].cost.date)
                    => \E i \in 1..(j - 1) :
                          /\ ps[i].cost = lot.cost
                          /\ ps[i].amount = AmountNeg(lot.amount)

\* a FIFO reduction over three eligible lots that were inserted newest
\* first, the last of them only partly consumed
C4_Witness ==
    /\ MethodDone
    /\ bm.method = "fifo"
    /\ bm.result.ok
    /\ Cardinality(Eligible(bm.inventory, bm.amount)) = 3
    /\ DistinctDates(Eligible(bm.inventory, bm.amount))
    /\ LET lots == GetPositionsForCurrency(bm.inventory, "USD")
       IN  Len(lots) = 3 /\ lots[1].cost.date > lots[2].cost.date
                         /\ lots[2].cost.date > lots[3].cost.date
    /\ Len(bm.result.postings) = 3
    /\ Len(GetPositions(bm.result.inventory)) = 1

\* the amount an inventory holds of a lot (zero if it does not hold it)
Held(inventory, lot) ==
    LET ps == GetPositionsForCurrency(inventory, lot.amount.currency)
        hits == {i \in 1..Len(ps) : KeyOf(ps[i]) = KeyOf(lot)}
    IN  IF hits = {}
        THEN AmountZero(lot.amount.currency)
        ELSE ps[CHOOSE i \in hits : TRUE].amount

RMin(a, b) == IF RLte(a, b) THEN a ELSE b

\* what is left of the request before the j-th emitted posting
Remaining(amount, ps, j) ==
    RSub(amount.amount, NetOf(SubSeq(ps, 1, j - 1), amount.currency))

\* the net of the emitted postings that carry the cost of a lot
TakenFrom(ps, lot) ==
    NetOf(SelectSeq(ps, LAMBDA p : p.cost = lot.cost), lot.amount.currency)

EligibleSeq(inventory, amount) ==
    SelectSeq(GetPositionsForCurrency(inventory, amount.currency),
              LAMBDA p : p.cost # NoCost /\ IsPos(p.amount) # IsPos(amount))

\* C12: FIFO.book and LIFO.book fail with NotEnoughToReduce iff the total
\* magnitude of the eligible lots is smaller than the requested magnitude,
\* and the error names the account and the remainder left after consuming
\* every eligible lot.
C12_NotEnoughToReduce ==
    MethodDone
    => LET total == NetOf(EligibleSeq(bm.inventory, bm.amount),
                          bm.amount.currency)
       IN  /\ ~bm.result.ok <=> RLt(RAbs(total), RAbs(bm.amount.amount))
           /\ ~bm.result.ok
              => /\ bm.result.error = "NotEnoughToReduce"
                 /\ bm.result.account = "Assets:Test"
                 /\ bm.result.remainder
                      = Amount(RAdd(bm.amount.amount, total),
                               bm.amount.currency)

\* requesting -1.1 against a single lot of 1 reports the remainder -0.1
C12_Witness ==
    /\ MethodDone
    /\ bm.amount = Amount(Normalize(-11, 10), "USD")
    /\ bm.inventory
         = AddPosition(InventoryEmpty,
                       Position(Amt(1, "USD"), CostAt(1, "CHF", 1)))
    /\ ~bm.result.ok
    /\ bm.result.remainder = Amount(Normalize(-1, 10), "USD")

\* the place of the lot of that cost among the positions of its currency
PlaceOf(inventory, currency, cost) ==
    LET ps == GetPositionsForCurrency(inventory, currency)
    IN  CHOOSE i \in 1..Len(ps) : ps[i].cost = cost

\* an inventory every one of whose MaxLots insertions made a new entry: its
\* positions stand in the order in which they were inserted
InInsertionOrder(inventory) == Len(GetPositions(inventory)) = MaxLots

\* C13: when several eligible lots have the same lot date, FIFO.book and
\* LIFO.book consume them in the order in which they were inserted into
\* the inventory.
C13_TiesByInsertionOrder ==
    (MethodDone /\ bm.result.ok /\ InInsertionOrder(bm.inventory))
    => LET ps == bm.result.postings
       IN  \A i, j \in 1..Len(ps) :
              (i < j /\ ps[i].cost.date = ps[j].cost.date)
              => PlaceOf(bm.inventory, bm.amount.currency, ps[i].cost)
                  < PlaceOf(bm.inventory, bm.amount.currency, ps[j].cost)

\* FIFO reduces -1 from two lots of 1 of the same date, inserted as
\* {1 CHF} and then {2 CHF}: the lot inserted last is the one reduced
C13_Witness ==
    /\ MethodDone
    /\ bm.method = "fifo"
    /\ bm.amount = Amt(-1, "USD")
    /\ bm.inventory
         = AddPositions(InventoryEmpty,
                        <<Position(Amt(1, "USD"), CostAt(1, "CHF", 1)),
                          Position(Amt(1, "USD"), CostAt(2, "CHF", 1)),
                          Position(Amt(1, "CHF"), NoCost)>>)
    /\ bm.result.ok
    /\ bm.result.postings
         = <<BookedPosting("Assets:Test", "*", Amt(-1, "USD"),
                           CostAt(2, "CHF", 1), NoMeta)>>

----------------------------------------------------------------------------
(* Claims about bookPosting *)

PostingDone == bm.method = "bookPosting" /\ bm.result # NoResult

\* a posting with an amount and a cost spec that names cost amounts
IsAugmentation(posting) ==
    /\ posting.costSpec # NoCostSpec
    /\ posting.amount # NoAmount
    /\ Len(posting.costSpec.amounts) > 0

\* the cost amounts of the lot and the cost postings at the trading account
\* agree with the cost spec, the factor being by
CostsAgree(posting, booked, by) ==
    \A i \in 1..Len(posting.costSpec.amounts) :
        LET s == posting.costSpec.amounts[i]
            c == booked[1].cost.amounts[i]
            T == booked[2 + i].amount
        IN  IF posting.costSpec.kind = "per-unit"
            THEN c = s /\ T = AmountMul(s, by)
            ELSE T = s /\ c = AmountDiv(s, by)

\* C14 as stated: for an augmentation of amount a and a cost-spec amount s,
\* per-unit gives c = s and T = s * |a|, total gives T = s and c = s / |a|,
\* for negative as well as positive a.
C14_CostByMagnitude ==
    (PostingDone /\ IsAugmentation(bm.posting) /\ bm.result.ok)
    => /\ Len(bm.result.postings) = 2 + Len(bm.posting.costSpec.amounts)
       /\ CostsAgree(bm.posting, bm.result.postings,
                     RAbs(bm.posting.amount.amount))

\* C14, amended: for an augmentation of amount a and a cost-spec amount s,
\* per-unit gives c = s and T = s * a, total gives T = s and c = s / a,
\* with the signed value of a; the lot posting comes first, then the
\* posting of -a and the cost postings T at the trading account.
C14_CostBySignedAmount ==
    (PostingDone /\ IsAugmentation(bm.posting) /\ bm.result.ok)
    => /\ Len(bm.result.postings) = 2 + Len(bm.posting.costSpec.amounts)
       /\ bm.result.postings[1].amount = bm.posting.amount
       /\ bm.result.postings[2].amount = AmountNeg(bm.posting.amount)
       /\ CostsAgree(bm.posting, bm.result.postings, bm.posting.amount.amount)
       /\ \A k \in 2..Len(bm.result.postings) :
             /\ bm.result.postings[k].cost = NoCost
             /\ bm.result.postings[k].account = bm.result.postings[2].account

\* -2 VT {{ 3 CHF }}: the lot is held at -3/2 CHF and 3 CHF go to the
\* trading account
C14_Witness ==
    /\ PostingDone
    /\ bm.posting.amount = Amt(-2, "VT")
    /\ bm.posting.costSpec # NoCostSpec
    /\ bm.posting.costSpec.amounts = <<Amt(3, "CHF")>>
    /\ bm.result.ok
    /\ bm.posting.costSpec.kind = "total"
    /\ bm.result.postings[1].cost.amounts
         = <<Amount(Normalize(-3, 2), "CHF")>>
    /\ bm.result.postings[3].amount = Amt(3, "CHF")

\* a posting with an amount and a cost spec that names no cost amount
IsReduction(posting) ==
    /\ posting.costSpec # NoCostSpec
    /\ posting.amount # NoAmount
    /\ Len(posting.costSpec.amounts) = 0

\* the postings of a list that are held at cost
AtCost(ps) == SelectSeq(ps, LAMBDA p : p.cost # NoCost)

\* each reduction followed by its postings at the trading account: the
\* negated amount and, per cost amount, the cost times the reduced amount
RECURSIVE WithTrading(_, _)
WithTrading(reductions, tradingAccount) ==
    IF Len(reductions) = 0
    THEN <<>>
    ELSE LET r == Head(reductions)
         IN  <<r,
               BookedPosting(tradingAccount, r.flag, AmountNeg(r.amount),
                             NoCost, NoMeta)>>
             \o [i \in 1..Len(r.cost.amounts) |->
                    BookedPosting(tradingAccount, r.flag,
                                  AmountMul(r.cost.amounts[i],
                                            r.amount.amount),
                                  NoCost, NoMeta)]
             \o WithTrading(Tail(reductions), tradingAccount)

\* C15: for every reduction posting of amount r against a lot with
\* per-unit cost amounts c_i, the booker also emits at the trading account
\* one posting of -r without cost and, for each c_i, one posting of
\* c_i * r without cost.
C15_TradingPostingsOfReduction ==
    (PostingDone /\ IsReduction(bm.posting) /\ bm.result.ok)
    => LET ps == bm.result.postings
       IN  /\ Len(AtCost(ps)) > 0
           /\ \A i \in 1..Len(ps) :
                ps[i].cost # NoCost => ps[i].account = bm.posting.account
           /\ NetOf(AtCost(ps), "VT") = bm.posting.amount.amount
           /\ \E account \in DOMAIN bm.inventories :
                ps = WithTrading(AtCost(ps), account)

\* reducing the lot of 2 VT at 150 CHF by -2 VT yields Trading:Default 2 VT
\* and Trading:Default -300 CHF
C15_Witness ==
    /\ PostingDone
    /\ IsReduction(bm.posting)
    /\ bm.posting.amount = Amt(-2, "VT")
    /\ bm.inventories["Assets:A"]
         = AddPosition(InventoryEmpty, Lot(2, <<Amt(150, "CHF")>>, 1, <<>>))
    /\ bm.result.ok
    /\ Len(bm.result.postings) = 3
    /\ bm.result.postings[1].amount = Amt(-2, "VT")
    /\ bm.result.postings[1].cost.amounts = <<Amt(150, "CHF")>>
    /\ bm.result.postings[2]
         = BookedPosting("Trading:Default", "*", Amt(2, "VT"), NoCost, NoMeta)
    /\ bm.result.postings[3]
         = BookedPosting("Trading:Default", "*", Amt(-300, "CHF"), NoCost,
                         NoMeta)

----------------------------------------------------------------------------
(* Claims about elastic postings *)

IsElastic(posting) ==
    posting.amount = NoAmount /\ posting.costSpec = NoCostSpec

\* the transaction whose postings were read last has been booked
LastBooked == pc = "directive" /\ txn # Absent

\* C16: a transaction that contains two or more elastic postings is not
\* booked successfully.
C16_AtMostOneElastic ==
    LastBooked
    => Cardinality({i \in 1..Len(txn.postings) :
                       IsElastic(txn.postings[i])}) <= 1

\* 1 USD to Assets:A followed by two elastic postings to Assets:B is
\* booked: the first elastic posting takes -1 USD, the second nothing
C16_Witness ==
    /\ LastBooked
    /\ Len(transactions) = 1
    /\ Len(txn.postings) = 3
    /\ txn.postings[1] = Posting("Assets:A", Amt(1, "USD"), NoCostSpec, NoMeta)
    /\ IsElastic(txn.postings[2])
    /\ IsElastic(txn.postings[3])
    /\ Len(transactions[1].postings) = 2
    /\ transactions[1].postings[2].amount = Amt(-1, "USD")

\* C17: booking an elastic posting emits, on its account and without cost,
\* one posting of -amount for every position of the running balance, and
\* the running balance is empty afterwards; a transaction whose postings
\* all book and whose last posting is elastic passes the balance check.
C17_ElasticAbsorbsBalance ==
    [][/\ \A posting \in Postings :
             (IsElastic(posting) /\ BookPostingStep(posting) /\ step'.got.ok)
             => LET residual == GetPositions(balance)
                IN  /\ step'.got.postings
                        = [i \in 1..Len(residual) |->
                              BookedPosting(posting.account, posting.flag,
                                            AmountNeg(residual[i].amount),
                                            NoCost, posting.meta)]
                    /\ balance' = InventoryEmpty
       /\ (/\ step.posting # Absent
           /\ IsElastic(step.posting)
           /\ EndTransaction)
          => /\ pc' = "directive"
             /\ result' = Running
             /\ Len(transactions') = Len(transactions) + 1]_vars

\* a booked transaction whose last posting was elastic and took a running
\* balance of two currencies
C17_Witness ==
    /\ LastBooked
    /\ Len(transactions) = 1
    /\ step.posting # Absent
    /\ IsElastic(step.posting)
    /\ step.got.ok
    /\ Len(step.got.postings) = 2
    /\ step.got.postings[1].amount.currency
         # step.got.postings[2].amount.currency
    /\ balance = InventoryEmpty

----------------------------------------------------------------------------
(* Claims about the lots a reduction may touch *)

\* q matches c: same date, and q's time and timezone, where given, are c's
DateSpecAgrees(q, c) ==
    /\ q.date = c.date
    /\ q.time = None \/ q.time = c.time
    /\ q.timezone = None \/ q.timezone = c.timezone

\* the position is held at cost and its cost passes every filter that is
\* not empty
Offered(position, costSpec) ==
    /\ position.cost # NoCost
    /\ \/ costSpec.currencies = <<>>
       \/ \E a \in Range(position.cost.amounts) :
             a.currency \in Range(costSpec.currencies)
    /\ \/ costSpec.tags = <<>>
       \/ Range(position.cost.tags) \cap Range(costSpec.tags) # {}
    /\ \/ costSpec.dates = <<>> /\ costSpec.dateSpecs = <<>>
       \/ position.cost.date \in Range(costSpec.dates)
       \/ \E q \in Range(costSpec.dateSpecs) :
             DateSpecAgrees(q, position.cost.dateSpec)

----------------------------------------------------------------------------
(* Claims about the trading account *)

IsAccount(value) == value.type = "account"

\* C20: the synthetic postings of a cost-spec posting go to the first
\* account-typed trading-account value found in the posting's metadata,
\* the transaction's metadata and the metadata of the posting account's
\* current Open directive, in this order, and to Trading:Default if there
\* is none.
C20_TradingAccount ==
    (/\ PostingDone
     /\ IsAugmentation(bm.posting) \/ IsReduction(bm.posting)
     /\ bm.result.ok)
    => LET p == bm.posting.meta.tradingAccount
           t == bm.transaction.meta.tradingAccount
           open == bm.accountDirective.type = "open"
           trading ==
               IF IsAccount(p) THEN p.value
               ELSE IF IsAccount(t) THEN t.value
               ELSE IF open /\ IsAccount(bm.accountDirective.meta.tradingAccount)
               THEN bm.accountDirective.meta.tradingAccount.value
               ELSE "Trading:Default"
           ps == bm.result.postings
       IN  /\ \E i \in 1..Len(ps) : ps[i].cost = NoCost
           /\ \A i \in 1..Len(ps) :
                /\ ps[i].cost = NoCost => ps[i].account = trading
                /\ ps[i].cost # NoCost => ps[i].account = bm.posting.account

\* the posting's value is a string and the transaction has none: the
\* account of the Open directive is used
C20_Witness ==
    /\ PostingDone
    /\ IsReduction(bm.posting)
    /\ bm.result.ok
    /\ bm.posting.meta.tradingAccount.type = "string"
    /\ bm.transaction.meta.tradingAccount = NoValue
    /\ bm.accountDirective.type = "open"
    /\ IsAccount(bm.accountDirective.meta.tradingAccount)
    /\ bm.result.postings[2].account = "Trading:Open"
    /\ ~IsEmpty(bm.result.inventories["Trading:Open"])

----------------------------------------------------------------------------
(* Claims about the ledger's currencies and the starting state *)

Returned == pc = "done" /\ result.state = "right"

\* C21: a Currency (or commodity) directive whose currency already has a
\* directive fails with DuplicateCurrency; any other is registered in the
\* CurrencyMap of the BookedLedger that book returns.
C21_CurrencyDirective ==
    \A c \in Currencies :
        /\ (Returned /\ ledger.currencyMap[c] # Absent)
               => currencyMap[c] = ledger.currencyMap[c]
        /\ (startLedger # Absent /\ startLedger.currencyMap[c] # Absent)
               => ledger.currencyMap[c] = Absent

\* the second ledger declares USD, the first did not: book returns a
\* BookedLedger without it
C21_Witness ==
    /\ Returned
    /\ startLedger # Absent
    /\ startLedger.currencyMap["USD"] = Absent
    /\ ledger.currencyMap["USD"] # Absent
    /\ currencyMap["USD"] = Absent

----------------------------------------------------------------------------
(* Claims about the order of Inventory.getPositions *)

\* the place of a currency in ascending order
CurrencyRank(currency) == IF currency = "CHF" THEN 1 ELSE 2

\* the lot date, a position without cost first
LotRank(position) == IF position.cost = NoCost THEN 0 ELSE position.cost.date

----------------------------------------------------------------------------
(* Claims about the outcome of book *)

\* C23: book ends with a BookedLedger or with a BookingError that carries
\* the directive whose processing failed, and with nothing else, such as an
\* uncaught exception.
C23_LedgerOrError ==
    /\ pc = "done" => result.state \in {"right", "left"}
    /\ result.state = "left" => pc = "done" /\ result.directive # Absent

\* a posting of no units at a total cost: the per-unit cost divides by zero
C23_Witness ==
    /\ pc = "done"
    /\ result.state = "thrown"
    /\ result.error.error = "DivisionByZero"
    /\ step.posting.amount = Amt(0, "USD")
    /\ step.posting.costSpec.kind = "total"
    /\ transactions = <<>>

\* C24: book(L2, start) with start the result of book(L1) goes on from the
\* state that book has between the last directive of L1 and the first of
\* L2 when it books both in one call: the accountMap and the inventories
\* reached after L1 and the currencyMap of the two ledgers together.
C24_IncrementalBooking ==
    [][(pc = "load" /\ pc' = "directive" /\ startLedger # Absent)
          => /\ accountMap' = startLedger.accountMap
             /\ inventories' = startLedger.inventories
             /\ \A c \in Currencies :
                   /\ ledger.currencyMap[c] = Absent
                         => currencyMap'[c] = startLedger.currencyMap[c]
                   /\ startLedger.currencyMap[c] = Absent
                         => currencyMap'[c] = ledger.currencyMap[c]]_vars

\* the first ledger declares USD and deposits 10 CHF, the second declares
\* CHF and deposits another 10 CHF: the inventories go on from those of
\* the first call, the returned currencyMap has USD only
C24_Witness ==
    /\ Returned
    /\ startLedger # Absent
    /\ startLedger.currencyMap["USD"] # Absent
    /\ startLedger.currencyMap["CHF"] = Absent
    /\ ledger.currencyMap["CHF"] # Absent
    /\ currencyMap = startLedger.currencyMap
    /\ GetPositions(startLedger.inventories["Assets:Bank"])
          = <<Position(Amt(10, "CHF"), NoCost)>>
    /\ GetPositions(inventories["Assets:Bank"])
          = <<Position(Amt(20, "CHF"), NoCost)>>

----------------------------------------------------------------------------
(* Claims about exact arithmetic *)

\* the amount an inventory holds of a currency, without cost
Plain(inventory, currency) ==
    LET held == {p \in Range(GetPositions(inventory)) :
                    p.amount.currency = currency /\ p.cost = NoCost}
    IN  IF held = {} THEN AmountZero(currency)
        ELSE (CHOOSE p \in held : TRUE).amount

\* C25: for amounts p and q of the same currency, (p + q) - q is p exactly:
\* after addAmount(q), the amount held less q is the amount held before.
C25_ExactArithmetic ==
    call.op = "addAmount"
    => LET q == call.args[1].amount
           p == Plain(call.before, q.currency)
           sum == Plain(inv, q.currency)
       IN  /\ sum = AmountAdd(p, q)
           /\ AmountSub(sum, q) = p
           /\ AmountSub(sum, p) = q
           /\ sum.amount.den > 0
           /\ GCD(Abs(sum.amount.num), sum.amount.den) = 1

\* 0.1 + 0.2 is 0.3, and 0.3 - 0.2 is 0.1
C25_Witness ==
    /\ call.op = "addAmount"
    /\ call.args[1].amount = Amount([num |-> 1, den |-> 5], "USD")
    /\ Plain(call.before, "USD") = Amount([num |-> 1, den |-> 10], "USD")
    /\ Plain(inv, "USD") = Amount([num |-> 3, den |-> 10], "USD")
    /\ AmountSub(Plain(inv, "USD"), call.args[1].amount)
          = Amount([num |-> 1, den |-> 10], "USD")

----------------------------------------------------------------------------
(* Claims about the balance assertion on the bank account *)

\* n hundredths of a CHF
Centimes(n) == Amount(Normalize(n, 100), "CHF")

\* the balance assertion of 10.01 CHF with the given tolerance, booked on
\* 10.00 CHF in Assets:Bank
BankAssertion(d, tolerance) ==
    /\ BookBalance(d)
    /\ d.balances[1].approx = tolerance
    /\ GetPositions(inventories["Assets:Bank"])
          = <<Position(Amt(10, "CHF"), NoCost)>>

\* C26 (as stated): with 10.00 CHF in Assets:Bank, the assertion of
\* 10.01 CHF ~ 0.02 succeeds, and with ~ 0.005 it fails with a
\* BalanceMismatch of delta -0.01 and maxDelta 0.005.
C26_DeltaNegative ==
    [][\A d \in BankBalances :
          /\ BankAssertion(d, Normalize(2, 100)) => result' = Running
          /\ BankAssertion(d, Normalize(5, 1000))
                => /\ FailedWith(result', "BalanceMismatch")
                   /\ result'.error.delta = Centimes(-1)
                   /\ result'.error.maxDelta = Amount(Normalize(5, 1000), "CHF")
      ]_vars

\* C26 (amended): the failing assertion carries the delta expected less
\* actual, 0.01.
C26_DeltaExpectedLessActual ==
    [][\A d \in BankBalances :
          /\ BankAssertion(d, Normalize(2, 100))
                => /\ result' = Running
                   /\ pc' = "directive"
          /\ BankAssertion(d, Normalize(5, 1000))
                => /\ FailedWith(result', "BalanceMismatch")
                   /\ result'.directive = d
                   /\ result'.error.expected = Centimes(1001)
                   /\ result'.error.actual = Centimes(1000)
                   /\ result'.error.delta = Centimes(1)
                   /\ result'.error.maxDelta = Amount(Normalize(5, 1000), "CHF")
      ]_vars

\* the assertion with tolerance 0.005 failed on 10.00 CHF
C26_Witness ==
    /\ FailedWith(result, "BalanceMismatch")
    /\ result.directive.balances[1].approx = [num |-> 1, den |-> 200]
    /\ result.error.actual = Amt(10, "CHF")
    /\ result.error.delta = Amount([num |-> 1, den |-> 100], "CHF")
    /\ GetPositions(inventories["Assets:Bank"])
          = <<Position(Amt(10, "CHF"), NoCost)>>

----------------------------------------------------------------------------
(* Claims about the heap functions *)

\* makeHeap leaves the range a heap
MadeHeap ==
    heap.op = "makeHeap"
    => /\ heap.returned
       /\ isHeap(heap.items, heap.cmp, heap.first, heap.last)

\* makeHeap on the outcome of makeHeap changes nothing
MadeHeapAgain ==
    (heap.op = "makeHeap" /\ heap.prev = "makeHeap")
    => heap.items = heap.before

\* popHeap on a heap moves its maximum to last-1 and leaves the rest a heap
PoppedHeap ==
    (heap.op = "popHeap" /\ heap.last > heap.first)
    => /\ heap.returned
       /\ At(heap.items, heap.last - 1) = At(heap.before, heap.first)
       /\ isHeap(heap.items, heap.cmp, heap.first, heap.last - 1)

\* C27: on any range of any array, makeHeap leaves the range a heap and
\* changes nothing when applied again, and popHeap on a range that is a
\* heap moves its maximum to index last-1 and leaves [first, last-1) a heap.
C27_HeapRange == MadeHeap /\ MadeHeapAgain /\ PoppedHeap

\* popHeap on the range [1, 4) of an array of four lots, a heap: the call
\* does not return
C27_Witness ==
    /\ heap.op = "popHeap"
    /\ heap.first = 1
    /\ heap.last = 4
    /\ isHeap(heap.before, heap.cmp, 1, 4)
    /\ ~heap.returned

\* C28 helper: the positions of the booked postings ps on an account, in order
PositionsOn(ps, account) ==
    LET on == SelectSeq(ps, LAMBDA p : p.account = account)
    IN  [i \in 1..Len(on) |-> Position(on[i].amount, on[i].cost)]

\* C28: after a posting is booked, the inventory of every account is its
\* inventory before with the booked postings on that account added as
\* positions (amount and cost), whatever the trading account; an account
\* without booked posting keeps its inventory
C28_InventoriesFollowPostings ==
    (PostingDone /\ bm.result.ok)
    => \A a \in DOMAIN bm.inventories :
           Range(GetPositions(bm.result.inventories[a]))
           = Range(GetPositions(
                 AddPositions(bm.inventories[a],
                              PositionsOn(bm.result.postings, a))))

\* C28 witness: a reduction whose trading account is the posting's own
\* account is booked: Assets:A -2 VT {} on 2 VT {150 CHF} yields
\* Assets:A -2 VT {150 CHF}, Assets:A 2 VT and Assets:A -300 CHF
C28_Witness ==
    /\ PostingDone
    /\ bm.result.ok
    /\ IsReduction(bm.posting)
    /\ Len(bm.result.postings) = 3
    /\ \A i \in 1..3 : bm.result.postings[i].account = "Assets:A"
    /\ bm.result.postings[3].amount = Amt(-300, "CHF")

\* C29: a posting that passed the check of its own account, was booked by
\* bookPosting and whose booked postings all have a currency the posting
\* account's Open directive allows is booked, together with its postings to
\* the trading account, whatever the ledger says of the trading account:
\* closed, never opened under the strict mode, or opened with a list of
\* currencies that does not hold the currency of a trading posting
C29_TradingAccountUnchecked ==
    (/\ step.posting # Absent
     /\ step.booked.ok
     /\ currencyCheck(step.state, step.booked.postings).ok)
    => /\ step.got.ok
       /\ step.got.postings = step.booked.postings
       /\ \A i \in 1..Len(step.got.postings) :
             step.got.postings[i] \in Range(postings)

\* C29 witness: under the strict mode, an augmentation of Assets:A is booked
\* with its postings of USD and CHF to Trading:Default while Trading:Default
\* is closed
C29_Witness ==
    /\ step.posting # Absent
    /\ step.got.ok
    /\ pc = "posting"
    /\ txn.optionMap.checks = "strict"
    /\ accountMap["Trading:Default"].type = "close"
    /\ IsAugmentation(step.posting)
    /\ Len(step.got.postings) = 3
    /\ \A i \in 2..3 : /\ step.got.postings[i].account = "Trading:Default"
                        /\ step.got.postings[i] \in Range(postings)

\* C30 helper: two positions at cost of the same currency, the same set of
\* per-unit cost amounts and the same lot instant
SameLot(p, q) ==
    /\ p.cost # NoCost
    /\ q.cost # NoCost
    /\ p.amount.currency = q.amount.currency
    /\ {<<a.amount, a.currency>> : a \in Range(p.cost.amounts)}
         = {<<a.amount, a.currency>> : a \in Range(q.cost.amounts)}
    /\ p.cost.date = q.cost.date

\* C30: addPosition of a position at cost to an inventory that holds a
\* position of the same currency, the same set of per-unit cost amounts and
\* the same lot instant merges the two, whatever their tags and date-specs:
\* the inventory then holds one lot of that key, with the sum of the two
\* amounts and the Cost (tags and date-spec) of the position added, and no
\* lot of that key if the sum is zero
C30_MergeIgnoresTagsAndDateSpec ==
    (call.op = "addPosition" /\ ~IsZero(call.args[1].amount))
    => LET added == call.args[1]
           held == {q \in Range(GetPositions(call.before)) : SameLot(q, added)}
           lots == {q \in Range(GetPositions(inv)) : SameLot(q, added)}
       IN  \A q \in held :
               LET sum == AmountAdd(q.amount, added.amount)
               IN  lots = IF IsZero(sum) THEN {}
                          ELSE {Position(sum, added.cost)}

\* C30 witness: 1 USD {1 CHF, day 1, no tag, written with its time} is added
\* to an inventory whose lot of 1 USD {1 CHF, day 1} carries a tag and a
\* date-spec without time: one lot of 2 USD, without tag and with the time
C30_Witness ==
    /\ call.op = "addPosition"
    /\ call.before
         = <<[currency |-> "USD",
              positions |->
                  <<Position(Amt(1, "USD"),
                             Cost(<<Amt(1, "CHF")>>, 1, DateSpec(1),
                                  <<"tag">>))>>]>>
    /\ call.args[1].cost # NoCost
    /\ call.args[1].cost.tags = <<>>
    /\ call.args[1].cost.dateSpec.time = "00:00"
    /\ GetPositions(inv) = <<Position(Amt(2, "USD"), call.args[1].cost)>>

====
